---- MODULE Spec2Model ----
(***************************************************************************)
(* A model of orion's ChaCha20 / HChaCha20 block engine, the IETF ChaCha20 *)
(* stream cipher, the one-shot XChaCha20-Poly1305 wrapper (aead.rs) and    *)
(* the secret-stream construction (SecretStreamXChaCha20Poly1305).         *)
(*                                                                         *)
(* Bytes are naturals 0..255, byte buffers are sequences of bytes.  A u32  *)
(* is the pair <<hi, lo>> of its two 16-bit halves, so that every value of *)
(* the type, 2^32 - 1 included, is representable and arithmetic keeps its  *)
(* 32-bit width.                                                           *)
(***************************************************************************)
EXTENDS Integers, Sequences, FiniteSets, TLC

VARIABLES
    snd,        \* the pushing session: [key, counter, r_nonce]
    rcv,        \* the pulling session: [key, counter, r_nonce]
    wire,       \* payloads pushed and not yet pulled, oldest first
    sent,       \* number of messages pushed so far on this stream
    dropped,    \* the sessions whose destructor has run
    last,       \* the last secret-stream call that succeeded, with its buffers
    failed,     \* the secret-stream call that just failed, until the caller acts
    cc,         \* the last chacha20::encrypt / decrypt call and its buffers
    ae          \* the last aead::seal / aead::open call and its buffers

vars == <<snd, rcv, wire, sent, dropped, last, failed, cc, ae>>

(***************************************************************************)
(* Bytes, words and buffers                                                *)
(***************************************************************************)

RECURSIVE XorBits(_, _, _)
XorBits(a, b, k) ==
    IF k = 0 THEN 0
    ELSE ((a + b) % 2) + 2 * XorBits(a \div 2, b \div 2, k - 1)

\* The table of a ^ b for bytes a, b, at index a * 256 + b + 1.
XorTab == <<0>> \o [i \in 1..65535 |-> XorBits(i \div 256, i % 256, 8)]

Xor8(a, b) == XorTab[a * 256 + b + 1]

Xor16(x, y) == Xor8(x \div 256, y \div 256) * 256 + Xor8(x % 256, y % 256)

Zeros(n) == <<>> \o [i \in 1..n |-> 0]

\* dst with src copied in at the 0-based offset off (copy_from_slice).
CopyInto(dst, off, src) ==
    <<>> \o [i \in 1..Len(dst) |->
        IF i > off /\ i <= off + Len(src) THEN src[i - off] ELSE dst[i]]

\* The slice b[from..to] of Rust: 0-based, to exclusive.
Slice(b, from, to) == SubSeq(b, from + 1, to)

\* u32 values
U32(n) == <<n \div 65536, n % 65536>>
U32_MAX == <<65535, 65535>>

wrapping_add(a, b) ==
    LET lo == a[2] + b[2]
        hi == a[1] + b[1] + (lo \div 65536)
    IN  <<hi % 65536, lo % 65536>>

\* Option<u32>: None is <<>>, Some(x) is <<x>>.
None == <<>>
Some(x) == <<x>>

checked_add(a, b) ==
    LET lo == a[2] + b[2]
        hi == a[1] + b[1] + (lo \div 65536)
    IN  IF hi >= 65536 THEN None ELSE Some(<<hi, lo % 65536>>)

xor32(a, b) == <<Xor16(a[1], b[1]), Xor16(a[2], b[2])>>

Pow2(k) ==
    CASE k = 4 -> 16 [] k = 7 -> 128 [] k = 8 -> 256 [] k = 9 -> 512
      [] k = 12 -> 4096 [] k = 16 -> 65536

rotate_left(a, k) ==
    IF k = 16 THEN <<a[2], a[1]>>
    ELSE <<((a[1] * Pow2(k)) % 65536) + (a[2] \div Pow2(16 - k)),
           ((a[2] * Pow2(k)) % 65536) + (a[1] \div Pow2(16 - k))>>

\* u32::from_le_bytes and u32::to_le_bytes
from_le_bytes(b) == <<b[4] * 256 + b[3], b[2] * 256 + b[1]>>
to_le_bytes(w) == <<w[2] % 256, w[2] \div 256, w[1] % 256, w[1] \div 256>>

load_u32_into_le(src) ==
    <<>> \o [i \in 1..(Len(src) \div 4) |-> from_le_bytes(SubSeq(src, 4 * i - 3, 4 * i))]

store_u32_into_le(src) ==
    <<>> \o [i \in 1..(4 * Len(src)) |-> to_le_bytes(src[((i - 1) \div 4) + 1])[((i - 1) % 4) + 1]]

\* (n as u64).to_le_bytes() for the lengths that occur (n < 2^31)
u64_to_le_bytes(n) ==
    <<n % 256, (n \div 256) % 256, (n \div 65536) % 256, n \div 16777216, 0, 0, 0, 0>>

(***************************************************************************)
(* The block engine: InternalState of chacha20.rs                          *)
(***************************************************************************)


CHACHA_KEYSIZE == 32
IETF_CHACHA_NONCESIZE == 12
CHACHA_BLOCKSIZE == 64
HCHACHA_OUTSIZE == 32
HCHACHA_NONCESIZE == 16

\* state[x] = state[x].wrapping_add(state[y])
add_word(state, x, y) == [state EXCEPT ![x] = wrapping_add(state[x], state[y])]

\* state[w] ^= state[x]; state[w] = state[w].rotate_left(n)
xor_rotate(state, w, x, n) ==
    [state EXCEPT ![w] = rotate_left(xor32(state[w], state[x]), n)]

quarter_round(state, x, y, z, w) ==
    xor_rotate(add_word(
    xor_rotate(add_word(
    xor_rotate(add_word(
    xor_rotate(add_word(state, x, y), w, x, 16),
                                  z, w), y, z, 12),
                                  x, y), w, x, 8),
                                  z, w), y, z, 7)

\* The (x, y, z, w) of the eight quarter rounds of process_inner_block: the
\* column rounds, then the diagonal rounds.  State words are numbered from 1
\* here: word i of the source is state[i + 1].
QuarterRounds ==
    << <<1, 5, 9, 13>>, <<2, 6, 10, 14>>, <<3, 7, 11, 15>>, <<4, 8, 12, 16>>,
       <<1, 6, 11, 16>>, <<2, 7, 12, 13>>, <<3, 8, 9, 14>>, <<4, 5, 10, 15>> >>

\* The quarter rounds from the i-th on.  Operator arguments are evaluated on
\* demand: reading Len(state) has each quarter round's state computed before
\* the next one starts.
RECURSIVE quarter_rounds(_, _)
quarter_rounds(state, i) ==
    IF i > Len(QuarterRounds) \/ Len(state) # 16 THEN state
    ELSE quarter_rounds(quarter_round(state, QuarterRounds[i][1], QuarterRounds[i][2],
                                      QuarterRounds[i][3], QuarterRounds[i][4]),
                        i + 1)

process_inner_block(state) == quarter_rounds(state, 1)

\* k double rounds.
RECURSIVE Rounds(_, _)
Rounds(state, k) ==
    IF k = 0 \/ Len(state) # 16 THEN state
    ELSE Rounds(process_inner_block(state), k - 1)

\* "expand 32-byte k": 0x61707865, 0x3320646e, 0x79622d32, 0x6b206574
ChaChaConstants == << <<24944, 30821>>, <<13088, 25710>>, <<31074, 11570>>, <<27424, 25972>> >>

\* InternalState::init: [err |-> TRUE] or the fresh engine instance.
init(secret_key, nonce, is_ietf) ==
    IF Len(nonce) # IETF_CHACHA_NONCESIZE /\ is_ietf THEN [err |-> TRUE]
    ELSE IF Len(nonce) # HCHACHA_NONCESIZE /\ ~is_ietf THEN [err |-> TRUE]
    ELSE [err |-> FALSE,
          state |-> ChaChaConstants \o load_u32_into_le(secret_key)
                    \o (IF is_ietf THEN <<U32(0)>> ELSE <<>>)
                    \o load_u32_into_le(nonce),
          internal_counter |-> U32(0),
          is_ietf |-> is_ietf]

\* A faulty feed-forward: the state is added in HChaCha20 mode too.
working_state_always_adding(is_ietf, state, rounds) ==
    <<>> \o [i \in 1..16 |-> wrapping_add(rounds[i], state[i])]

\* The block process_block returns: the rounds' output, with the state the
\* rounds started from added word by word in IETF mode.
working_state(is_ietf, state, rounds) ==
    IF is_ietf THEN <<>> \o [i \in 1..16 |-> wrapping_add(rounds[i], state[i])]
    ELSE rounds

\* process_block once the invocation counter and the block counter are stored.
process_state(self) ==
    [err |-> FALSE, panic |-> FALSE, self |-> self,
     block |-> working_state(self.is_ietf, self.state, Rounds(self.state, 10))]

\* A faulty process_block: the invocation counter wraps.
process_block_wrapping(self, block_count) ==
    IF self.is_ietf /\ block_count = None
        THEN [err |-> TRUE, panic |-> FALSE, self |-> self]
    ELSE IF ~self.is_ietf /\ block_count # None
        THEN [err |-> TRUE, panic |-> FALSE, self |-> self]
    ELSE process_state(
            [self EXCEPT !.internal_counter = wrapping_add(self.internal_counter, U32(1)),
                         !.state = IF self.is_ietf
                                   THEN [self.state EXCEPT ![13] = block_count[1]]
                                   ELSE self.state])

\* A faulty process_block: the block counter is stored on the instance's first
\* call only.
process_block_keeping_block_count(self, block_count) ==
    IF self.is_ietf /\ block_count = None
        THEN [err |-> TRUE, panic |-> FALSE, self |-> self]
    ELSE IF ~self.is_ietf /\ block_count # None
        THEN [err |-> TRUE, panic |-> FALSE, self |-> self]
    ELSE IF checked_add(self.internal_counter, U32(1)) = None
        THEN [err |-> FALSE, panic |-> TRUE, self |-> self]
    ELSE process_state(
            [self EXCEPT !.internal_counter = checked_add(self.internal_counter, U32(1))[1],
                         !.state = IF self.is_ietf /\ self.internal_counter = U32(0)
                                   THEN [self.state EXCEPT ![13] = block_count[1]]
                                   ELSE self.state])

\* InternalState::process_block: the result, the engine after the call and the
\* block; panic is the checked_add(1).unwrap() on the invocation counter.
process_block(self, block_count) ==
    IF self.is_ietf /\ block_count = None
        THEN [err |-> TRUE, panic |-> FALSE, self |-> self]
    ELSE IF ~self.is_ietf /\ block_count # None
        THEN [err |-> TRUE, panic |-> FALSE, self |-> self]
    ELSE IF checked_add(self.internal_counter, U32(1)) = None
        THEN [err |-> FALSE, panic |-> TRUE, self |-> self]
    ELSE process_state(
            [self EXCEPT !.internal_counter = checked_add(self.internal_counter, U32(1))[1],
                         !.state = IF self.is_ietf
                                   THEN [self.state EXCEPT ![13] = block_count[1]]
                                   ELSE self.state])

\* A faulty serialize_block: a destination of any length is written.
serialize_block_any_length(self, src_block, dst_block) ==
    IF self.is_ietf
        THEN [err |-> FALSE, dst_block |-> store_u32_into_le(src_block)]
    ELSE [err |-> FALSE,
          dst_block |-> store_u32_into_le(SubSeq(src_block, 1, 4))
                        \o store_u32_into_le(SubSeq(src_block, 13, 16))]

\* InternalState::serialize_block: dst_block is the destination's content
\* before the call.
serialize_block(self, src_block, dst_block) ==
    IF Len(dst_block) # CHACHA_BLOCKSIZE /\ self.is_ietf
        THEN [err |-> TRUE, dst_block |-> dst_block]
    ELSE IF Len(dst_block) # HCHACHA_OUTSIZE /\ ~self.is_ietf
        THEN [err |-> TRUE, dst_block |-> dst_block]
    ELSE IF self.is_ietf
        THEN [err |-> FALSE, dst_block |-> store_u32_into_le(src_block)]
    ELSE [err |-> FALSE,
          dst_block |-> store_u32_into_le(SubSeq(src_block, 1, 4))
                        \o store_u32_into_le(SubSeq(src_block, 13, 16))]

\* The part keystream_block and hchacha20 share: the block of the
\* process_block result pb, serialized into a zeroed buffer of n bytes.
serialized(pb, n) ==
    IF pb.err THEN [err |-> TRUE]
    ELSE [err |-> FALSE, block |-> serialize_block(pb.self, pb.block, Zeros(n)).dst_block]

\* A faulty keystream_block: the engine is set up with a nonce of zeros.
keystream_block_ignoring_nonce(secret_key, nonce, counter) ==
    IF init(secret_key, nonce, TRUE).err THEN [err |-> TRUE]
    ELSE serialized(process_block(init(secret_key, Zeros(IETF_CHACHA_NONCESIZE), TRUE),
                                  Some(counter)),
                    CHACHA_BLOCKSIZE)

\* keystream_block(secret_key, nonce, counter)
keystream_block(secret_key, nonce, counter) ==
    IF init(secret_key, nonce, TRUE).err THEN [err |-> TRUE]
    ELSE serialized(process_block(init(secret_key, nonce, TRUE), Some(counter)),
                    CHACHA_BLOCKSIZE)

\* hchacha20(secret_key, nonce)
hchacha20(secret_key, nonce) ==
    IF init(secret_key, nonce, FALSE).err THEN [err |-> TRUE]
    ELSE serialized(process_block(init(secret_key, nonce, FALSE), None), HCHACHA_OUTSIZE)

(***************************************************************************)
(* chacha20::encrypt / decrypt                                             *)
(***************************************************************************)

\* The number of 64-byte chunks of a buffer of n bytes (chunks of Rust).
NumChunks(n) == (n + CHACHA_BLOCKSIZE - 1) \div CHACHA_BLOCKSIZE

\* The i-th chunk (from 0) of b.
Chunk(b, i) ==
    SubSeq(b, CHACHA_BLOCKSIZE * i + 1,
           IF CHACHA_BLOCKSIZE * (i + 1) < Len(b) THEN CHACHA_BLOCKSIZE * (i + 1) ELSE Len(b))

\* ciphertext_block after the loop body, keystream being the serialized
\* keystream block.  A ciphertext_block of a full 64 bytes receives the keystream
\* itself before the plaintext is XORed in; a shorter one is written byte by
\* byte, as far as the plaintext goes.
xor_block(keystream, plaintext_block, ciphertext_block) ==
    <<>> \o [j \in 1..Len(ciphertext_block) |->
        IF j <= Len(plaintext_block) THEN Xor8(keystream[j], plaintext_block[j])
        ELSE IF Len(ciphertext_block) = CHACHA_BLOCKSIZE THEN keystream[j]
        ELSE ciphertext_block[j]]

\* One iteration of encrypt's loop body once the keystream state is computed.
encrypt_chunk(chacha_state, keystream_state, plaintext_block, ciphertext_block) ==
    xor_block(serialize_block(chacha_state, keystream_state,
                  IF Len(ciphertext_block) = CHACHA_BLOCKSIZE THEN ciphertext_block
                  ELSE Zeros(CHACHA_BLOCKSIZE)).dst_block,
              plaintext_block, ciphertext_block)

RECURSIVE encrypt_loop(_, _, _, _, _)

\* encrypt's loop at chunk i, pb being what process_block returned for it.
encrypt_block(pb, initial_counter, plaintext, dst_out, i) ==
    IF pb.err THEN [err |-> TRUE, panic |-> FALSE, dst_out |-> dst_out]
    ELSE IF pb.panic THEN [err |-> FALSE, panic |-> TRUE, dst_out |-> dst_out]
    ELSE encrypt_loop(pb.self, initial_counter, plaintext,
             CopyInto(dst_out, CHACHA_BLOCKSIZE * i,
                 encrypt_chunk(pb.self, pb.block, Chunk(plaintext, i), Chunk(dst_out, i))),
             i + 1)

\* encrypt's loop from chunk i on (the zip of the chunks of plaintext and of
\* dst_out ends with the shorter); dst_out is the destination as written so far.
encrypt_loop(chacha_state, initial_counter, plaintext, dst_out, i) ==
    IF i >= NumChunks(Len(plaintext)) \/ i >= NumChunks(Len(dst_out))
    THEN [err |-> FALSE, panic |-> FALSE, dst_out |-> dst_out]
    ELSE IF checked_add(initial_counter, U32(i)) = None
    THEN [err |-> TRUE, panic |-> FALSE, dst_out |-> dst_out]
    ELSE encrypt_block(process_block(chacha_state, checked_add(initial_counter, U32(i))),
                       initial_counter, plaintext, dst_out, i)

\* A faulty encrypt: an empty plaintext is let through.
encrypt_accepting_empty(secret_key, nonce, initial_counter, plaintext, dst_out) ==
    IF Len(dst_out) < Len(plaintext)
        THEN [err |-> TRUE, panic |-> FALSE, dst_out |-> dst_out]
    ELSE IF init(secret_key, nonce, TRUE).err
        THEN [err |-> TRUE, panic |-> FALSE, dst_out |-> dst_out]
    ELSE encrypt_loop(init(secret_key, nonce, TRUE), initial_counter, plaintext, dst_out, 0)

\* chacha20::encrypt: the result and the content of dst_out after the call.
encrypt(secret_key, nonce, initial_counter, plaintext, dst_out) ==
    IF Len(dst_out) < Len(plaintext)
        THEN [err |-> TRUE, panic |-> FALSE, dst_out |-> dst_out]
    ELSE IF Len(plaintext) = 0
        THEN [err |-> TRUE, panic |-> FALSE, dst_out |-> dst_out]
    ELSE IF init(secret_key, nonce, TRUE).err
        THEN [err |-> TRUE, panic |-> FALSE, dst_out |-> dst_out]
    ELSE encrypt_loop(init(secret_key, nonce, TRUE), initial_counter, plaintext, dst_out, 0)

\* A faulty decrypt: the keystream is taken from the block after
\* initial_counter.
decrypt_from_next_block(secret_key, nonce, initial_counter, ciphertext, dst_out) ==
    encrypt(secret_key, nonce, wrapping_add(initial_counter, U32(1)), ciphertext, dst_out)

\* chacha20::decrypt
decrypt(secret_key, nonce, initial_counter, ciphertext, dst_out) ==
    encrypt(secret_key, nonce, initial_counter, ciphertext, dst_out)

\* chacha20::encrypt_in_place: the keystream from block initial_counter on is
\* XORed over bytes, which are the dst_out of the result.
encrypt_in_place(secret_key, nonce, initial_counter, bytes) ==
    encrypt(secret_key, nonce, initial_counter, bytes, bytes)

(***************************************************************************)
(* Poly1305 (hazardous::mac::poly1305), as RFC 8439 defines it.  Numbers   *)
(* modulo 2^130 - 5 are 17 little-endian base-256 limbs.                   *)
(***************************************************************************)

POLY1305_KEYSIZE == 32
POLY1305_OUTSIZE == 16
PolyLimbs == 17

\* Carry propagation over the limbs x[j..], with carry u coming in: the limbs
\* reduced to bytes, followed by the carry going out.
RECURSIVE Carry(_, _, _)
Carry(x, j, u) ==
    IF j > Len(x) THEN <<u>>
    ELSE <<(x[j] + u) % 256>> \o Carry(x, j + 1, (x[j] + u) \div 256)

add1305(h, c) ==
    SubSeq(Carry(<<>> \o [j \in 1..PolyLimbs |-> h[j] + c[j]], 1, 0), 1, PolyLimbs)

\* Limb i (from 1) of h * r before reduction: 2^136 = 320 modulo 2^130 - 5.
RECURSIVE MulLimb(_, _, _, _)
MulLimb(h, r, i, j) ==
    IF j > PolyLimbs THEN 0
    ELSE h[j] * (IF j <= i THEN r[i - j + 1] ELSE 320 * r[i + PolyLimbs - j + 1])
         + MulLimb(h, r, i, j + 1)

\* Partial reduction modulo 2^130 - 5 back to 17 limbs.
Squeeze(x) ==
    LET p == Carry(SubSeq(x, 1, 16), 1, 0)
        u == p[17] + x[17]
        q == Carry(SubSeq(p, 1, 16), 1, 5 * (u \div 4))
    IN  SubSeq(q, 1, 16) \o <<q[17] + (u % 4)>>

mulmod(h, r) == Squeeze(<<>> \o [i \in 1..PolyLimbs |-> MulLimb(h, r, i, 1)])

\* r with the bits the algorithm requires cleared.
Clamp(k) ==
    <<>> \o [j \in 1..PolyLimbs |->
        IF j = 17 THEN 0
        ELSE IF j \in {4, 8, 12, 16} THEN k[j] % 16
        ELSE IF j \in {5, 9, 13} THEN k[j] - (k[j] % 4)
        ELSE k[j]]

\* The block of up to 16 bytes of data at the 0-based offset pos, as limbs,
\* with the 1 appended above its last byte.
PolyBlock(data, pos) ==
    <<>> \o [j \in 1..PolyLimbs |->
        IF pos + j <= Len(data) /\ j <= 16 THEN data[pos + j]
        ELSE IF (pos + j = Len(data) + 1 /\ j <= 16) \/ (j = 17 /\ pos + 16 <= Len(data))
             THEN 1 ELSE 0]

\* The accumulator after the blocks of data from the 0-based offset pos on.
RECURSIVE PolyBlocks(_, _, _, _)
PolyBlocks(h, r, data, pos) ==
    IF pos >= Len(data) \/ Len(h) # PolyLimbs THEN h
    ELSE PolyBlocks(mulmod(add1305(h, PolyBlock(data, pos)), r), r, data, pos + 16)

\* h modulo 2^130 - 5, fully reduced.
Freeze(h) ==
    LET g == add1305(h, <<5>> \o Zeros(15) \o <<252>>)
    IN  IF g[17] >= 128 THEN h ELSE g

\* The tag of data under one_time_key.
poly1305(one_time_key, data) ==
    SubSeq(add1305(Freeze(PolyBlocks(Zeros(PolyLimbs), Clamp(one_time_key), data, 0)),
                   SubSeq(one_time_key, 17, 32) \o <<0>>),
           1, POLY1305_OUTSIZE)

\* The streaming interface: init, update, finalize.
poly1305_init(one_time_key) == [key |-> one_time_key, data |-> <<>>]
update(poly, bytes) == [poly EXCEPT !.data = poly.data \o bytes]
finalize(poly) == poly1305(poly.key, poly.data)

(***************************************************************************)
(* The secret stream: SecretStreamXChaCha20Poly1305                        *)
(***************************************************************************)

TAG_MESSAGE == 0
TAG_PUSH == 1
TAG_REKEY == 2
TAG_FINISH == 3

SECRETSTREAM_XCHACHA20POLY1305_HEADERBYTES == 24
SECRETSTREAM_XCHACHA20POLY1305_COUNTERBYTES == 4
SECRETSTREAM_XCHACHA20POLY1305_INONCEBYTES == 8
SECRETSTREAM_XCHACHA20POLY1305_ABYTES == 17

\* Tag::from_bits: Some(bits) when no bit outside PUSH | REKEY is set.
\* A faulty decoding: the bits no tag defines are dropped (from_bits_truncate).
from_bits_truncate(bits) == Some(bits % 4)

from_bits(bits) == IF bits \div 4 = 0 THEN Some(bits) ELSE None

xor_buf8(out, input) == <<>> \o [i \in 1..8 |-> Xor8(out[i], input[i])]

\* A faulty padding: what precedes it, a bytes and b bytes, is padded to the
\* next multiple of 16.
PadLen_to_boundary(a, b) == (16 - ((a + b) % 16)) % 16

\* (16usize.wrapping_sub(a).wrapping_add(b)) & 15 for a, b < 2^31
PadLen(a, b) == (((16 - a + b) % 16) + 16) % 16

get_key(self) == self.key

\* A faulty get_nonce: the nonce of the first message, whatever the session
\* holds.
get_nonce_fixed(self) ==
    to_le_bytes(U32(1)) \o Zeros(SECRETSTREAM_XCHACHA20POLY1305_INONCEBYTES)

get_nonce(self) == to_le_bytes(self.counter) \o self.r_nonce

\* SecretStreamXChaCha20Poly1305::new
new(key, nonce) ==
    [key |-> hchacha20(key, Slice(nonce, 0, HCHACHA_NONCESIZE)).block,
     counter |-> U32(1),
     r_nonce |-> Slice(nonce, HCHACHA_NONCESIZE, SECRETSTREAM_XCHACHA20POLY1305_HEADERBYTES)]

\* A faulty init: the key and the nonce remainder are replaced, the message
\* counter goes on from where it was.
stream_init_keeping_counter(self, key, nonce) ==
    [new(key, nonce) EXCEPT !.counter = self.counter]

\* SecretStreamXChaCha20Poly1305::init: *self = new(key, nonce)
stream_init(self, key, nonce) == new(key, nonce)

\* A faulty rekey: the new key and nonce remainder are stored, the message
\* counter is not reset.
rekey_store_keeping_counter(self, e) ==
    IF e.err THEN [err |-> TRUE, self |-> self]
    ELSE [err |-> FALSE,
          self |-> [key |-> Slice(e.dst_out, 0, CHACHA_KEYSIZE),
                    counter |-> self.counter,
                    r_nonce |-> Slice(e.dst_out, CHACHA_KEYSIZE,
                        CHACHA_KEYSIZE + SECRETSTREAM_XCHACHA20POLY1305_INONCEBYTES)]]

\* rekey from the return of chacha20_enc_in_place on: e is what it returned.
rekey_store(self, e) ==
    IF e.err THEN [err |-> TRUE, self |-> self]
    ELSE [err |-> FALSE,
          self |-> [key |-> Slice(e.dst_out, 0, CHACHA_KEYSIZE),
                    counter |-> U32(1),
                    r_nonce |-> Slice(e.dst_out, CHACHA_KEYSIZE,
                        CHACHA_KEYSIZE + SECRETSTREAM_XCHACHA20POLY1305_INONCEBYTES)]]

\* rekey: the result and the session after the call.
rekey(self) ==
    rekey_store(self, encrypt_in_place(get_key(self), get_nonce(self), U32(0),
                                       self.key \o self.r_nonce))

\* A faulty trigger: the counter's wrap to zero is not looked at.
rekey_if_on_tag_only(self, tag) ==
    IF tag = TAG_REKEY THEN rekey(self)
    ELSE [err |-> FALSE, self |-> self]

\* The rekey trigger that ends push and pull, self being the session with the
\* nonce remainder and the counter already updated.
rekey_if(self, tag) ==
    IF tag = TAG_REKEY \/ self.counter = U32(0) THEN rekey(self)
    ELSE [err |-> FALSE, self |-> self]

\* A faulty ratchet: the MAC is not folded into the nonce remainder.
ratchet_without_mac(self, mac8, tag) ==
    rekey_if([self EXCEPT !.counter = wrapping_add(self.counter, U32(1))], tag)

\* The last steps of push and pull: xor_buf8 on the nonce remainder, the
\* counter's increment and the rekey trigger.
ratchet(self, mac8, tag) ==
    rekey_if([self EXCEPT !.r_nonce = xor_buf8(self.r_nonce, mac8),
                          !.counter = wrapping_add(self.counter, U32(1))],
             tag)

\* A faulty MAC input: the tag block is left out.
mac_input_without_tag_block(ad, block, ciphertext) ==
    (IF ad # None /\ Len(ad[1]) > 0 THEN ad[1] ELSE <<>>)
    \o Zeros(PadLen(IF ad = None THEN 0 ELSE Len(ad[1]), 0))
    \o ciphertext
    \o Zeros(PadLen(CHACHA_BLOCKSIZE, Len(ciphertext)))
    \o u64_to_le_bytes(IF ad = None THEN 0 ELSE Len(ad[1]))
    \o u64_to_le_bytes(CHACHA_BLOCKSIZE + Len(ciphertext))

\* The bytes fed to the MAC, given the tag block and the ciphertext.
mac_input(ad, block, ciphertext) ==
    (IF ad # None /\ Len(ad[1]) > 0 THEN ad[1] ELSE <<>>)
    \o Zeros(PadLen(IF ad = None THEN 0 ELSE Len(ad[1]), 0))
    \o block
    \o ciphertext
    \o Zeros(PadLen(CHACHA_BLOCKSIZE, Len(ciphertext)))
    \o u64_to_le_bytes(IF ad = None THEN 0 ELSE Len(ad[1]))
    \o u64_to_le_bytes(CHACHA_BLOCKSIZE + Len(ciphertext))

\* The MAC of a message: block0 is keystream block 0, block the tag block.
message_mac(block0, ad, block, ciphertext) ==
    finalize(update(poly1305_init(Slice(block0, 0, POLY1305_KEYSIZE)),
                    mac_input(ad, block, ciphertext)))

\* push's return value, r being what the ratchet returned.
push_return(r, dst_out) == [err |-> r.err, self |-> r.self, dst_out |-> dst_out]

\* push from the MAC's finalization on; dst_out holds the tag byte and the
\* ciphertext.
push_mac(self, tag, dst_out, macpos, mac) ==
    push_return(ratchet(self, Slice(CopyInto(dst_out, macpos, mac), macpos, macpos + 8), tag),
                CopyInto(dst_out, macpos, mac))

\* push from the return of chacha20_enc on: enc is what it returned for
\* dst_out[cipherpos..], tag_byte what dst_out[0] holds by then.
push_encrypted(self, plaintext, ad, tag, block0, block, tag_byte, enc) ==
    IF enc.err
    THEN [err |-> TRUE, self |-> self, dst_out |-> <<tag_byte>> \o enc.dst_out]
    ELSE push_mac(self, tag, <<tag_byte>> \o enc.dst_out, 1 + Len(plaintext),
                  message_mac(block0, ad, block, Slice(enc.dst_out, 0, Len(plaintext))))

\* push from the two chacha20_enc_in_place calls on: e0 is what the call on
\* the zero block returned, e1 what the call on the tag block returned.
push_blocks(self, plaintext, ad, dst_out, tag, e0, e1) ==
    IF e0.err \/ e1.err THEN [err |-> TRUE, self |-> self, dst_out |-> dst_out]
    ELSE push_encrypted(self, plaintext, ad, tag, e0.dst_out, e1.dst_out, e1.dst_out[1],
             encrypt(get_key(self), get_nonce(self), U32(2), plaintext,
                     Slice(dst_out, 1, Len(dst_out))))

\* A faulty push: the length check leaves the tag byte out of the payload's
\* size.
push_forgetting_tag_byte(self, plaintext, ad, dst_out, tag) ==
    IF Len(dst_out) < POLY1305_OUTSIZE + Len(plaintext)
    THEN [err |-> TRUE, self |-> self, dst_out |-> dst_out]
    ELSE push_blocks(self, plaintext, ad, dst_out, tag,
             encrypt_in_place(get_key(self), get_nonce(self), U32(0),
                              Zeros(CHACHA_BLOCKSIZE)),
             encrypt_in_place(get_key(self), get_nonce(self), U32(1),
                              <<tag>> \o Zeros(CHACHA_BLOCKSIZE - 1)))

\* push: the result, the session and dst_out after the call.
push(self, plaintext, ad, dst_out, tag) ==
    IF Len(dst_out) < SECRETSTREAM_XCHACHA20POLY1305_ABYTES + Len(plaintext)
    THEN [err |-> TRUE, self |-> self, dst_out |-> dst_out]
    ELSE push_blocks(self, plaintext, ad, dst_out, tag,
             encrypt_in_place(get_key(self), get_nonce(self), U32(0),
                              Zeros(CHACHA_BLOCKSIZE)),
             encrypt_in_place(get_key(self), get_nonce(self), U32(1),
                              <<tag>> \o Zeros(CHACHA_BLOCKSIZE - 1)))

\* A faulty error return: the failed attempt is counted in the session.
pull_err_counting(at, self, plaintext_out, tag_out) ==
    [err |-> TRUE, at |-> at,
     self |-> [self EXCEPT !.counter = wrapping_add(self.counter, U32(1))],
     plaintext_out |-> plaintext_out, tag_out |-> tag_out]

\* pull returning the error from the place `at`, nothing written.
pull_err(at, self, plaintext_out, tag_out) ==
    [err |-> TRUE, at |-> at, self |-> self,
     plaintext_out |-> plaintext_out, tag_out |-> tag_out]

\* pull's return value, r being what the ratchet returned: tag_out is
\* assigned after the rekey trigger.
pull_return(r, plaintext_out, tag_out, tag) ==
    [err |-> r.err, at |-> IF r.err THEN "rekey" ELSE "end", self |-> r.self,
     plaintext_out |-> plaintext_out, tag_out |-> IF r.err THEN tag_out ELSE tag]

\* A faulty end of pull: the plaintext and the tag are reported, the nonce
\* remainder and the counter are left as they were.
pull_decrypted_without_ratchet(self, tag_out, tag, mac, dec) ==
    [err |-> dec.err, at |-> IF dec.err THEN "decrypt" ELSE "end", self |-> self,
     plaintext_out |-> dec.dst_out, tag_out |-> IF dec.err THEN tag_out ELSE tag]

\* pull from the return of chacha20_enc on: dec is what it returned for
\* plaintext_out.
pull_decrypted(self, tag_out, tag, mac, dec) ==
    IF dec.err
    THEN [err |-> TRUE, at |-> "decrypt", self |-> self,
          plaintext_out |-> dec.dst_out, tag_out |-> tag_out]
    ELSE pull_return(ratchet(self, Slice(mac, 0, 8), tag), dec.dst_out, tag_out, tag)

\* A faulty pull: the ciphertext is decrypted into plaintext_out before the
\* MAC is compared.
pull_verify_after_decrypt(self, cipher, plaintext_out, tag_out, tag, mac) ==
    IF mac # Slice(cipher, Len(cipher) - POLY1305_OUTSIZE, Len(cipher))
    THEN pull_err("mac", self,
             encrypt(get_key(self), get_nonce(self), U32(2),
                     Slice(cipher, 1, Len(cipher) - POLY1305_OUTSIZE), plaintext_out).dst_out,
             tag_out)
    ELSE pull_decrypted(self, tag_out, tag, mac,
             encrypt(get_key(self), get_nonce(self), U32(2),
                     Slice(cipher, 1, Len(cipher) - POLY1305_OUTSIZE), plaintext_out))

\* pull from the comparison of the MAC on: mac is the MAC computed.
pull_verify(self, cipher, plaintext_out, tag_out, tag, mac) ==
    IF mac # Slice(cipher, Len(cipher) - POLY1305_OUTSIZE, Len(cipher))
    THEN pull_err("mac", self, plaintext_out, tag_out)
    ELSE pull_decrypted(self, tag_out, tag, mac,
             encrypt(get_key(self), get_nonce(self), U32(2),
                     Slice(cipher, 1, Len(cipher) - POLY1305_OUTSIZE), plaintext_out))

\* pull from the two chacha20_enc_in_place calls on: e0 is what the call on
\* the zero block returned, e1 what the call on the block holding cipher[0]
\* returned.
pull_blocks(self, cipher, ad, plaintext_out, tag_out, e0, e1) ==
    IF e0.err \/ e1.err THEN pull_err("block", self, plaintext_out, tag_out)
    ELSE IF from_bits(e1.dst_out[1]) = None
    THEN pull_err("tag", self, plaintext_out, tag_out)
    ELSE pull_verify(self, cipher, plaintext_out, tag_out, from_bits(e1.dst_out[1])[1],
             message_mac(e0.dst_out, ad, CopyInto(e1.dst_out, 0, <<cipher[1]>>),
                         Slice(cipher, 1, Len(cipher) - POLY1305_OUTSIZE)))

\* pull: the result, the place it returned from, the session, plaintext_out
\* and tag_out after the call.
pull(self, cipher, ad, plaintext_out, tag_out) ==
    IF Len(cipher) < SECRETSTREAM_XCHACHA20POLY1305_ABYTES
    THEN pull_err("cipher", self, plaintext_out, tag_out)
    ELSE IF Len(plaintext_out) < Len(cipher) - SECRETSTREAM_XCHACHA20POLY1305_ABYTES
    THEN pull_err("plaintext_out", self, plaintext_out, tag_out)
    ELSE pull_blocks(self, cipher, ad, plaintext_out, tag_out,
             encrypt_in_place(get_key(self), get_nonce(self), U32(0),
                              Zeros(CHACHA_BLOCKSIZE)),
             encrypt_in_place(get_key(self), get_nonce(self), U32(1),
                              <<cipher[1]>> \o Zeros(CHACHA_BLOCKSIZE - 1)))

\* drop: what the session's memory holds when the destructor has run.
drop(self) == [self EXCEPT !.key = Zeros(CHACHA_KEYSIZE)]

(***************************************************************************)
(* XChaCha20-Poly1305 (hazardous::aead::xchacha20poly1305) as the          *)
(* specification lays it out, and the one-shot wrapper of aead.rs          *)
(***************************************************************************)

XCHACHA_NONCESIZE == 24
POLY1305_BLOCKSIZE == 16

\* The subkey HChaCha20 derives from the nonce's first 16 bytes.
xchacha_subkey(secret_key, nonce) ==
    hchacha20(secret_key, Slice(nonce, 0, HCHACHA_NONCESIZE)).block

\* The IETF nonce: four zero bytes, then the nonce's last 8 bytes.
xchacha_nonce(nonce) == Zeros(4) \o Slice(nonce, HCHACHA_NONCESIZE, XCHACHA_NONCESIZE)

\* The one-time Poly1305 key: the first 32 bytes of keystream block 0.
poly1305_key_gen(subkey, ietf_nonce) ==
    Slice(keystream_block(subkey, ietf_nonce, U32(0)).block, 0, POLY1305_KEYSIZE)

\* The bytes the tag is computed over: the padded associated data, the padded
\* ciphertext and the two lengths.
aead_mac_input(ad, ciphertext) ==
    ad \o Zeros(PadLen(Len(ad), 0))
    \o ciphertext \o Zeros(PadLen(Len(ciphertext), 0))
    \o u64_to_le_bytes(Len(ad)) \o u64_to_le_bytes(Len(ciphertext))

\* seal from the encryption on: enc is what encrypt returned for the
\* ciphertext region of dst_out.
seal_tagged(poly_key, ad, dst_out, enc) ==
    IF enc.err THEN [err |-> TRUE, dst_out |-> dst_out]
    ELSE [err |-> FALSE,
          dst_out |-> CopyInto(CopyInto(dst_out, 0, enc.dst_out), Len(enc.dst_out),
                               poly1305(poly_key, aead_mac_input(ad, enc.dst_out)))]

\* hazardous::aead::xchacha20poly1305::seal: the ciphertext from block 1 on,
\* followed by the tag.
xchacha20poly1305_seal(secret_key, nonce, plaintext, ad, dst_out) ==
    IF Len(plaintext) = 0 \/ Len(dst_out) < Len(plaintext) + POLY1305_BLOCKSIZE
    THEN [err |-> TRUE, dst_out |-> dst_out]
    ELSE seal_tagged(poly1305_key_gen(xchacha_subkey(secret_key, nonce), xchacha_nonce(nonce)),
             ad, dst_out,
             encrypt(xchacha_subkey(secret_key, nonce), xchacha_nonce(nonce), U32(1),
                     plaintext, Slice(dst_out, 0, Len(plaintext))))

\* open from the tag's comparison on: tag is the tag computed, dec what
\* decrypting the ciphertext returns.
open_verified(ciphertext_with_tag, tag, dst_out, dec) ==
    IF tag # Slice(ciphertext_with_tag, Len(ciphertext_with_tag) - POLY1305_BLOCKSIZE,
                   Len(ciphertext_with_tag))
    THEN [err |-> TRUE, dst_out |-> dst_out]
    ELSE [err |-> dec.err, dst_out |-> dec.dst_out]

\* hazardous::aead::xchacha20poly1305::open: the tag is verified, then the
\* ciphertext decrypted into dst_out.
xchacha20poly1305_open(secret_key, nonce, ciphertext_with_tag, ad, dst_out) ==
    IF Len(ciphertext_with_tag) <= POLY1305_BLOCKSIZE
       \/ Len(dst_out) < Len(ciphertext_with_tag) - POLY1305_BLOCKSIZE
    THEN [err |-> TRUE, dst_out |-> dst_out]
    ELSE open_verified(ciphertext_with_tag,
             poly1305(poly1305_key_gen(xchacha_subkey(secret_key, nonce), xchacha_nonce(nonce)),
                      aead_mac_input(ad, Slice(ciphertext_with_tag, 0,
                                        Len(ciphertext_with_tag) - POLY1305_BLOCKSIZE))),
             dst_out,
             decrypt(xchacha_subkey(secret_key, nonce), xchacha_nonce(nonce), U32(1),
                     Slice(ciphertext_with_tag, 0,
                           Len(ciphertext_with_tag) - POLY1305_BLOCKSIZE),
                     dst_out))

\* A call of aead.rs returns Ok(out), returns Err(UnknownCryptoError) or
\* panics.
Ok(out) == [res |-> "ok", out |-> out]
Err == [res |-> "err", out |-> <<>>]
Panic == [res |-> "panic", out |-> <<>>]

\* seal and open after the inner call: r is what it returned, on which the
\* wrapper calls unwrap(); dst_out is the vector the wrapper returns.
unwrap_into(r, dst_out) == IF r.err THEN Panic ELSE Ok(dst_out)

\* seal after the inner call, r being what it returned for dst_out[24..].
seal_return(nonce, r) ==
    unwrap_into(r, CopyInto(CopyInto(Zeros(XCHACHA_NONCESIZE + Len(r.dst_out)), 0, nonce),
                            XCHACHA_NONCESIZE, r.dst_out))

\* What the system's random source does when asked for bytes: it yields them,
\* or it fails.
Rng(bytes) == [ok |-> TRUE, bytes |-> bytes]
RngFailure == [ok |-> FALSE, bytes |-> <<>>]

\* A faulty secure_rand_bytes: the failure of the random source is returned.
secure_rand_bytes_reporting(dst, rng) ==
    IF Len(dst) = 0 \/ ~rng.ok THEN [res |-> "err", dst |-> dst]
    ELSE [res |-> "ok", dst |-> CopyInto(dst, 0, rng.bytes)]

\* util::secure_rand_bytes(dst), rng being what getrandom does:
\* getrandom::getrandom(dst).unwrap() panics when the source fails.
secure_rand_bytes(dst, rng) ==
    IF Len(dst) = 0 THEN [res |-> "err", dst |-> dst]
    ELSE IF ~rng.ok THEN [res |-> "panic", dst |-> dst]
    ELSE [res |-> "ok", dst |-> CopyInto(dst, 0, rng.bytes)]

\* Nonce::generate(): it returns a Nonce, not a Result (aead.rs:83), so a
\* failure of the random source cannot come back as a value.
generate(rng) ==
    [panic |-> secure_rand_bytes(Zeros(XCHACHA_NONCESIZE), rng).res # "ok",
     value |-> secure_rand_bytes(Zeros(XCHACHA_NONCESIZE), rng).dst]

\* A faulty seal: the nonce is used and not stored in the payload, whose
\* first 24 bytes stay zero.
seal_without_nonce(secret_key, plaintext, rng) ==
    IF Len(plaintext) = 0 THEN Err
    ELSE IF generate(rng).panic THEN Panic
    ELSE seal_return(Zeros(XCHACHA_NONCESIZE),
             xchacha20poly1305_seal(secret_key, generate(rng).value, plaintext, <<>>,
                                    Zeros(Len(plaintext) + POLY1305_BLOCKSIZE)))

\* aead::seal, rng being what the random source does when Nonce::generate()
\* asks it for the nonce.
seal(secret_key, plaintext, rng) ==
    IF Len(plaintext) = 0 THEN Err
    ELSE IF generate(rng).panic THEN Panic
    ELSE seal_return(generate(rng).value,
             xchacha20poly1305_seal(secret_key, generate(rng).value, plaintext, <<>>,
                                    Zeros(Len(plaintext) + POLY1305_BLOCKSIZE)))

\* open after the inner call, r being what it returned for dst_out.
open_return(r) == unwrap_into(r, r.dst_out)

\* A faulty open: the length check lets a payload without ciphertext through.
open_accepting_empty(secret_key, ciphertext_with_tag_and_nonce) ==
    IF Len(ciphertext_with_tag_and_nonce) < XCHACHA_NONCESIZE + POLY1305_BLOCKSIZE
    THEN Err
    ELSE open_return(
             xchacha20poly1305_open(secret_key,
                 Slice(ciphertext_with_tag_and_nonce, 0, XCHACHA_NONCESIZE),
                 Slice(ciphertext_with_tag_and_nonce, XCHACHA_NONCESIZE,
                       Len(ciphertext_with_tag_and_nonce)),
                 <<>>,
                 Zeros(Len(ciphertext_with_tag_and_nonce)
                       - (XCHACHA_NONCESIZE + POLY1305_BLOCKSIZE))))

\* aead::open
open(secret_key, ciphertext_with_tag_and_nonce) ==
    IF Len(ciphertext_with_tag_and_nonce) < XCHACHA_NONCESIZE + POLY1305_BLOCKSIZE + 1
    THEN Err
    ELSE open_return(
             xchacha20poly1305_open(secret_key,
                 Slice(ciphertext_with_tag_and_nonce, 0, XCHACHA_NONCESIZE),
                 Slice(ciphertext_with_tag_and_nonce, XCHACHA_NONCESIZE,
                       Len(ciphertext_with_tag_and_nonce)),
                 <<>>,
                 Zeros(Len(ciphertext_with_tag_and_nonce)
                       - (XCHACHA_NONCESIZE + POLY1305_BLOCKSIZE))))

(***************************************************************************)
(* Inputs                                                                  *)
(***************************************************************************)

NumKeys == 2        \* keys, nonces and stream headers the callers choose among
MaxMsgs == 2        \* messages pushed on one stream
MaxChunks == 2      \* 64-byte chunks of the longest buffer given to encrypt

\* Key 0 is the all-zero key of the secret-stream tests, key 1 the key
\* 00 01 .. 1f of the RFC 8439 vectors.
KeyOf(k) == <<>> \o [j \in 1..CHACHA_KEYSIZE |-> (k * (j - 1)) % 256]

\* The 24-byte stream header / XChaCha20 nonce number k (0: all zero).
HeaderOf(k) == <<>> \o [j \in 1..XCHACHA_NONCESIZE |-> (k * j) % 256]

\* The 12-byte nonce number n: all zero, 00 00 00 09 00 00 00 4a 00 00 00 00
\* of RFC 8439, ...
NonceOf(n) ==
    <<>> \o [j \in 1..IETF_CHACHA_NONCESIZE |->
        IF j = 4 THEN (9 * n) % 256 ELSE IF j = 8 THEN (74 * n) % 256 ELSE 0]

\* A message of n bytes: "1234..." .
MsgOf(n) == <<>> \o [j \in 1..n |-> 48 + (j % 200)]

\* A caller's buffer of n bytes before a call writes to it.
Fill(n) == <<>> \o [j \in 1..n |-> 170]

Tags == {TAG_MESSAGE, TAG_PUSH, TAG_REKEY, TAG_FINISH}

\* What the pusher is asked to send: every tag, one message longer and with
\* associated data, and an empty message.
PushInputs ==
    {[tag |-> TAG_MESSAGE, len |-> 4, ad |-> None],
     [tag |-> TAG_PUSH, len |-> 20, ad |-> Some(<<97, 100>>)],
     [tag |-> TAG_REKEY, len |-> 4, ad |-> None],
     [tag |-> TAG_FINISH, len |-> 4, ad |-> None],
     [tag |-> TAG_MESSAGE, len |-> 0, ad |-> None]}

\* How a payload on the wire is altered before it reaches the puller.
Tampers == {"tag", "tag_undefined", "ct", "mac", "ad"}

FlipBit(b, pos, bit) == [b EXCEPT ![pos + 1] = Xor8(b[pos + 1], bit)]

Tamper(m, how) ==
    CASE how = "tag" -> [m EXCEPT !.cipher = FlipBit(m.cipher, 0, 1)]
      [] how = "tag_undefined" -> [m EXCEPT !.cipher = FlipBit(m.cipher, 0, 4)]
      [] how = "ct" -> [m EXCEPT !.cipher = FlipBit(m.cipher, 1, 1)]
      [] how = "mac" -> [m EXCEPT !.cipher = FlipBit(m.cipher, Len(m.cipher) - 1, 128)]
      [] how = "ad" -> [m EXCEPT !.ad = Some(<<97>>)]

\* The initial counters given to encrypt: the first two and the last two.
Counters == {U32(0), U32(1), <<65535, 65534>>, U32_MAX}

\* The plaintext lengths given to encrypt: none, a byte, half a chunk, whole
\* chunks, and whole chunks and a byte.
PlainLens ==
    {0, 1, 32} \cup {CHACHA_BLOCKSIZE * c : c \in 1..MaxChunks}
               \cup {CHACHA_BLOCKSIZE * c + 1 : c \in 1..(MaxChunks - 1)}

\* By how much dst_out is longer than the plaintext.
DstSlack == {-1, 0, 32}

\* The plaintext lengths given to seal, and the bits flipped in the payload a
\* seal call returned: in the nonce, the ciphertext and the tag.
SealLens == {0, 1, 14, 70}
FlipPositions(call) ==
    IF call.op = "seal" /\ call.res = "ok"
    THEN {0, 10, XCHACHA_NONCESIZE - 1, XCHACHA_NONCESIZE,
          Len(call.out) - POLY1305_BLOCKSIZE - 1, Len(call.out) - POLY1305_BLOCKSIZE,
          Len(call.out) - 1}
    ELSE {}
FlipBits == {1, 128}

NoCall == [op |-> "none"]

(***************************************************************************)
(* The secret stream as a state machine: one pusher, one puller            *)
(***************************************************************************)

StreamInit ==
    /\ \E k \in 0..(NumKeys - 1) :
          /\ snd = new(KeyOf(k), HeaderOf(k))
          /\ rcv = new(KeyOf(k), HeaderOf(k))
    /\ wire = <<>>
    /\ sent = 0
    /\ dropped = {}
    /\ last = NoCall
    /\ failed = NoCall

\* The record of a push call, r being what push returned.
PushCall(in, plaintext, dst_out, r) ==
    [op |-> "push", err |-> r.err, pre |-> snd, post |-> r.self,
     plaintext |-> plaintext, ad |-> in.ad, tag |-> in.tag,
     dst_in |-> dst_out, dst_out |-> r.dst_out]

\* The pusher's step once push has returned.
Pushed(call) ==
    /\ snd' = call.post
    /\ IF call.err
       THEN failed' = call /\ UNCHANGED <<wire, sent, last>>
       ELSE /\ wire' = <<[cipher |-> call.dst_out, ad |-> call.ad,
                          plaintext |-> call.plaintext, tag |-> call.tag]>>
            /\ sent' = sent + 1
            /\ last' = call
            /\ failed' = failed

\* The pusher calls push(plaintext, ad, dst_out, tag) with a dst_out of exactly
\* the payload's size.
Push(in) ==
    /\ failed = NoCall /\ dropped = {} /\ wire = <<>> /\ sent < MaxMsgs
    /\ Pushed(PushCall(in, MsgOf(in.len),
                       Fill(in.len + SECRETSTREAM_XCHACHA20POLY1305_ABYTES),
                       push(snd, MsgOf(in.len), in.ad,
                            Fill(in.len + SECRETSTREAM_XCHACHA20POLY1305_ABYTES), in.tag)))
    /\ UNCHANGED <<rcv, dropped>>

\* The record of a pull call on message m, r being what pull returned.
PullCall(m, how, plaintext_out, tag_out, r) ==
    [op |-> "pull", err |-> r.err, at |-> r.at, pre |-> rcv, post |-> r.self, how |-> how,
     cipher |-> m.cipher, ad |-> m.ad,
     plaintext_in |-> plaintext_out, plaintext_out |-> r.plaintext_out,
     tag_in |-> tag_out, tag_out |-> r.tag_out,
     pushed |-> wire[1], peer |-> snd]

\* pull on message m, into a plaintext_out of exactly the message's size and
\* a tag_out that holds another tag than the one pushed.
Pulling(m, how) ==
    PullCall(m, how, Fill(Len(m.cipher) - SECRETSTREAM_XCHACHA20POLY1305_ABYTES),
             (wire[1].tag + 1) % 4,
             pull(rcv, m.cipher, m.ad,
                  Fill(Len(m.cipher) - SECRETSTREAM_XCHACHA20POLY1305_ABYTES),
                  (wire[1].tag + 1) % 4))

\* The puller's step once pull has returned; the payload leaves the wire when
\* it was pulled as pushed.
Pulled(call) ==
    /\ rcv' = call.post
    /\ IF call.err
       THEN failed' = call /\ UNCHANGED <<wire, last>>
       ELSE /\ wire' = IF call.how = "intact" THEN Tail(wire) ELSE wire
            /\ last' = call
            /\ failed' = failed

\* The puller receives the oldest payload as pushed.
Pull ==
    /\ failed = NoCall /\ dropped = {} /\ wire # <<>>
    /\ Pulled(Pulling(wire[1], "intact"))
    /\ UNCHANGED <<snd, sent, dropped>>

\* The puller receives the oldest payload altered in transit.
PullTampered(how) ==
    /\ failed = NoCall /\ dropped = {} /\ wire # <<>>
    /\ Pulled(Pulling(Tamper(wire[1], how), how))
    /\ UNCHANGED <<snd, sent, dropped>>

\* The pusher calls push with a dst_out one byte shorter than the payload.
PushShort(in) ==
    /\ failed = NoCall /\ dropped = {} /\ wire = <<>> /\ sent < MaxMsgs
    /\ Pushed(PushCall(in, MsgOf(in.len),
                       Fill(in.len + SECRETSTREAM_XCHACHA20POLY1305_ABYTES - 1),
                       push(snd, MsgOf(in.len), in.ad,
                            Fill(in.len + SECRETSTREAM_XCHACHA20POLY1305_ABYTES - 1), in.tag)))
    /\ UNCHANGED <<rcv, dropped>>

\* The calls of pull that are malformed: on less than a whole payload, and into
\* a plaintext_out too short for the message.
Malformations == {"short", "small_out"}

\* pull on the first 16 bytes of message m, or on m into a plaintext_out that
\* is one byte short.
Malformed(m, how) ==
    IF how = "short"
    THEN PullCall([m EXCEPT !.cipher = Slice(@, 0, SECRETSTREAM_XCHACHA20POLY1305_ABYTES - 1)],
                  how, Fill(Len(m.plaintext)), (m.tag + 1) % 4,
                  pull(rcv, Slice(m.cipher, 0, SECRETSTREAM_XCHACHA20POLY1305_ABYTES - 1),
                       m.ad, Fill(Len(m.plaintext)), (m.tag + 1) % 4))
    ELSE PullCall(m, how, Fill(Len(m.plaintext) - 1), (m.tag + 1) % 4,
                  pull(rcv, m.cipher, m.ad, Fill(Len(m.plaintext) - 1), (m.tag + 1) % 4))

\* The puller makes a malformed call on the oldest payload.
PullMalformed(how) ==
    /\ failed = NoCall /\ dropped = {} /\ wire # <<>>
    /\ Pulled(Malformed(wire[1], how))
    /\ UNCHANGED <<snd, sent, dropped>>

\* The caller has seen the error of the failed call.
Ack ==
    /\ failed # NoCall
    /\ failed' = NoCall
    /\ UNCHANGED <<snd, rcv, wire, sent, dropped, last>>

\* A session goes out of scope: its destructor runs.
Drop(who) ==
    /\ failed = NoCall /\ who \notin dropped
    /\ dropped' = dropped \cup {who}
    /\ IF who = "snd" THEN snd' = drop(snd) /\ rcv' = rcv
       ELSE rcv' = drop(rcv) /\ snd' = snd
    /\ UNCHANGED <<wire, sent, last, failed>>

\* No stream, no encrypt call, no seal call.
NoStream ==
    /\ snd = NoCall /\ rcv = NoCall /\ wire = <<>> /\ sent = 0 /\ dropped = {}
    /\ last = NoCall /\ failed = NoCall

Init == StreamInit /\ cc = NoCall /\ ae = NoCall

Next ==
    \/ \E in \in PushInputs : Push(in) /\ UNCHANGED <<cc, ae>>
    \/ Pull /\ UNCHANGED <<cc, ae>>
    \/ \E how \in Tampers : PullTampered(how) /\ UNCHANGED <<cc, ae>>
    \/ \E in \in PushInputs : PushShort(in) /\ UNCHANGED <<cc, ae>>
    \/ \E how \in Malformations : PullMalformed(how) /\ UNCHANGED <<cc, ae>>
    \/ Ack /\ UNCHANGED <<cc, ae>>
    \/ \E who \in {"snd", "rcv"} : Drop(who) /\ UNCHANGED <<cc, ae>>

Spec == Init /\ [][Next]_vars

(***************************************************************************)
(* One stream whose sessions are also rekeyed and initialised again        *)
(***************************************************************************)

\* The session `who` names.
Session(who) == IF who = "snd" THEN snd ELSE rcv

\* The caller's step once a call that only changes the session `who` has
\* returned.
SessionCalled(who, call) ==
    /\ last' = call
    /\ IF who = "snd" THEN snd' = call.post /\ rcv' = rcv
       ELSE rcv' = call.post /\ snd' = snd
    /\ UNCHANGED <<wire, dropped, failed>>

\* The owner of a session calls rekey().
Rekey(who) ==
    /\ failed = NoCall /\ dropped = {} /\ sent < MaxMsgs
    /\ SessionCalled(who, [op |-> "rekey", who |-> who, err |-> rekey(Session(who)).err,
                            pre |-> Session(who), post |-> rekey(Session(who)).self])
    /\ sent' = sent + 1

\* The owner of the session that made the last call (push is the pusher's,
\* pull the puller's) calls init(KeyOf(k), HeaderOf(k)) on it.
Reinit(who, k) ==
    /\ failed = NoCall /\ dropped = {} /\ last.op \notin {"none", "init"}
    /\ who = IF last.op = "push" THEN "snd" ELSE IF last.op = "pull" THEN "rcv" ELSE last.who
    /\ SessionCalled(who, [op |-> "init", who |-> who, err |-> FALSE, k |-> k,
                            pre |-> Session(who),
                            post |-> stream_init(Session(who), KeyOf(k), HeaderOf(k))])
    /\ sent' = sent

\* The messages pushed on this stream: four bytes, tagged MESSAGE and REKEY.
SessionInputs == {in \in PushInputs : in.len = 4 /\ in.tag \in {TAG_MESSAGE, TAG_REKEY}}

\* The stream is followed up to a call of init.
NextSession ==
    \/ \E in \in SessionInputs : last.op # "init" /\ Push(in) /\ UNCHANGED <<cc, ae>>
    \/ last.op # "init" /\ Pull /\ UNCHANGED <<cc, ae>>
    \/ Ack /\ UNCHANGED <<cc, ae>>
    \/ \E who \in {"snd", "rcv"} : last.op # "init" /\ Rekey(who) /\ UNCHANGED <<cc, ae>>
    \/ \E who \in {"snd", "rcv"}, k \in 0..(NumKeys - 1) : Reinit(who, k) /\ UNCHANGED <<cc, ae>>

SpecSession == Init /\ [][NextSession]_vars

(***************************************************************************)
(* One stream late in its life, over a network that keeps every payload    *)
(* and hands them over in any order.  Here wire holds the payloads pushed, *)
(* sent counts the calls made on the stream, and cc is the stream's        *)
(* history: the keystream blocks the pusher's calls asked for and the      *)
(* payloads pulled, in the order of the pulls.                             *)
(***************************************************************************)

\* The keystream blocks a rekey call on the session self asks for: rekey
\* encrypts 40 bytes in place from block 0.
RekeyUses(self, id) ==
    {[key |-> get_key(self), nonce |-> get_nonce(self), block |-> 0,
      use |-> "rekey", call |-> id]}

\* The keystream blocks the push call asked for, id being the call's number:
\* none when dst_out was too short, else block 0 for the MAC key, block 1 for
\* the tag block, the blocks from 2 on for a plaintext that is not empty, and,
\* when the call ended in rekey, what rekey asked for in the session as the
\* ratchet left it.
PushUses(call, id) ==
    IF Len(call.dst_in) < SECRETSTREAM_XCHACHA20POLY1305_ABYTES + Len(call.plaintext)
    THEN {}
    ELSE {[key |-> get_key(call.pre), nonce |-> get_nonce(call.pre), block |-> 0,
           use |-> "mac_key", call |-> id],
          [key |-> get_key(call.pre), nonce |-> get_nonce(call.pre), block |-> 1,
           use |-> "tag_block", call |-> id]}
         \cup {[key |-> get_key(call.pre), nonce |-> get_nonce(call.pre), block |-> 2 + i,
                use |-> "message", call |-> id] : i \in 0..(NumChunks(Len(call.plaintext)) - 1)}
         \cup (IF ~call.err /\ (call.tag = TAG_REKEY \/ call.pre.counter = U32_MAX)
               THEN RekeyUses([call.pre EXCEPT
                                  !.counter = wrapping_add(@, U32(1)),
                                  !.r_nonce = xor_buf8(@, Slice(call.dst_out,
                                                  1 + Len(call.plaintext),
                                                  9 + Len(call.plaintext)))], id)
               ELSE {})

\* The pusher's step once push has returned: a payload pushed joins the
\* payloads the network holds, with the session that pushed it.
PushedNext(call) ==
    /\ snd' = call.post
    /\ sent' = sent + 1
    /\ IF call.err
       THEN failed' = call /\ UNCHANGED <<wire, last>>
       ELSE /\ wire' = Append(wire, [cipher |-> call.dst_out, ad |-> call.ad,
                                     plaintext |-> call.plaintext, tag |-> call.tag,
                                     pre |-> call.pre])
            /\ last' = call
            /\ failed' = failed
    /\ cc' = [cc EXCEPT !.uses = @ \cup PushUses(call, sent + 1)]

\* The pusher calls push.
PushNext(in) ==
    /\ failed = NoCall /\ sent < MaxMsgs
    /\ PushedNext(PushCall(in, MsgOf(in.len),
                           Fill(in.len + SECRETSTREAM_XCHACHA20POLY1305_ABYTES),
                           push(snd, MsgOf(in.len), in.ad,
                                Fill(in.len + SECRETSTREAM_XCHACHA20POLY1305_ABYTES), in.tag)))
    /\ UNCHANGED <<rcv, dropped, ae>>

\* The puller's step once pull has returned for the i-th payload pushed.
PulledAt(i, call) ==
    /\ rcv' = call.post
    /\ IF call.err
       THEN failed' = call /\ UNCHANGED <<last, cc>>
       ELSE /\ last' = call
            /\ failed' = failed
            /\ cc' = [cc EXCEPT !.pulled = Append(@, i)]

\* The network hands the puller the i-th payload pushed: the one that is
\* due, one pulled before, or one pushed after the one that is due.
PullAt(i) ==
    /\ failed = NoCall
    /\ PulledAt(i, [Pulling(wire[i], "at") EXCEPT !.pushed = wire[i]])
    /\ UNCHANGED <<snd, wire, sent, dropped, ae>>

\* The pusher or the puller calls rekey().
RekeyNext(who) ==
    /\ Rekey(who)
    /\ cc' = IF who = "snd" THEN [cc EXCEPT !.uses = @ \cup RekeyUses(snd, sent + 1)] ELSE cc
    /\ ae' = ae

\* The sessions of a stream under the zero key and header of the tests, at
\* the start of the stream or two messages before the counter's last value.
InitStream ==
    /\ \E counter \in {U32(1), <<65535, 65534>>} :
          /\ snd = [new(KeyOf(0), HeaderOf(0)) EXCEPT !.counter = counter]
          /\ rcv = snd
    /\ wire = <<>> /\ sent = 0 /\ dropped = {} /\ last = NoCall /\ failed = NoCall
    /\ cc = [uses |-> {}, pulled |-> <<>>]
    /\ ae = NoCall

\* The messages pushed on this stream: all but the one tagged FINISH.
NextStream ==
    \/ \E in \in {in \in PushInputs : in.tag # TAG_FINISH} : PushNext(in)
    \/ \E i \in 1..Len(wire) : PullAt(i)
    \/ \E who \in {"snd", "rcv"} : RekeyNext(who)
    \/ Ack /\ UNCHANGED <<cc, ae>>

SpecStream == InitStream /\ [][NextStream]_vars

(***************************************************************************)
(* chacha20::encrypt and decrypt called on chosen inputs                   *)
(***************************************************************************)

\* The record of an encrypt call, r being what encrypt returned.
EncryptCall(k, n, counter, plaintext, dst_out, r) ==
    [op |-> "encrypt", key |-> k, nonce |-> n, counter |-> counter,
     plaintext |-> plaintext, dst_in |-> dst_out,
     err |-> r.err, panic |-> r.panic, dst_out |-> r.dst_out]

\* encrypt(KeyOf(k), NonceOf(n), counter, plaintext, dst_out)
Encrypt(k, n, counter, len, dlen) ==
    /\ cc = NoCall /\ dlen >= 0
    /\ cc' = EncryptCall(k, n, counter, MsgOf(len), Fill(dlen),
                 encrypt(KeyOf(k), NonceOf(n), counter, MsgOf(len), Fill(dlen)))
    /\ UNCHANGED <<snd, rcv, wire, sent, dropped, last, failed, ae>>

\* The record of a decrypt call on what the encrypt call enc produced.
DecryptCall(enc, dst_out, r) ==
    [op |-> "decrypt", enc |-> enc, dst_in |-> dst_out,
     err |-> r.err, panic |-> r.panic, dst_out |-> r.dst_out]

\* decrypt with the key, nonce and counter of the encrypt call, on the
\* ciphertext it produced.
Decrypt ==
    /\ cc.op = "encrypt" /\ ~cc.err /\ ~cc.panic
    /\ cc' = DecryptCall(cc, Fill(Len(cc.plaintext)),
                 decrypt(KeyOf(cc.key), NonceOf(cc.nonce), cc.counter,
                         Slice(cc.dst_out, 0, Len(cc.plaintext)), Fill(Len(cc.plaintext))))
    /\ UNCHANGED <<snd, rcv, wire, sent, dropped, last, failed, ae>>

\* The buffers given to decrypt after an encrypt call enc, chosen by how: no
\* ciphertext, a dst_out one byte short, a dst_out 32 bytes longer than the
\* ciphertext.
DecryptBuffers(enc, how) ==
    [ciphertext |-> IF how = "empty" THEN <<>>
                    ELSE Slice(enc.dst_out, 0, Len(enc.plaintext)),
     dst_out    |-> Fill(IF how = "short" THEN Len(enc.plaintext) - 1
                         ELSE IF how = "long" THEN Len(enc.plaintext) + 32
                         ELSE Len(enc.plaintext))]

\* The record of a decrypt call on the buffers b, r being what it returned.
DecryptOnCall(enc, how, b, r) ==
    [op |-> "decrypt_on", how |-> how, counter |-> enc.counter,
     ciphertext |-> b.ciphertext, dst_in |-> b.dst_out,
     err |-> r.err, panic |-> r.panic, dst_out |-> r.dst_out]

\* decrypt with the key, nonce and counter of the encrypt call, on the buffers
\* chosen by how.
DecryptOn(how) ==
    /\ cc.op = "encrypt" /\ ~cc.err /\ ~cc.panic
    /\ cc' = DecryptOnCall(cc, how, DecryptBuffers(cc, how),
                 decrypt(KeyOf(cc.key), NonceOf(cc.nonce), cc.counter,
                         DecryptBuffers(cc, how).ciphertext,
                         DecryptBuffers(cc, how).dst_out))
    /\ UNCHANGED <<snd, rcv, wire, sent, dropped, last, failed, ae>>

\* keystream_block(KeyOf(k), NonceOf(n), counter), called first, or called
\* again after a first call, which the record keeps as prev.
KeystreamBlock(k, n, counter) ==
    /\ cc = NoCall \/ (cc.op = "keystream_block" /\ cc.prev = NoCall)
    /\ cc' = [op |-> "keystream_block", key |-> k, nonce |-> n, counter |-> counter,
              err |-> keystream_block(KeyOf(k), NonceOf(n), counter).err,
              block |-> keystream_block(KeyOf(k), NonceOf(n), counter).block,
              prev |-> cc]
    /\ UNCHANGED <<snd, rcv, wire, sent, dropped, last, failed, ae>>

\* encrypt's loop seen chunk by chunk, on the counters alone.  What the loop
\* decides (Ok, Err or panic) depends on initial_counter, on the chunk index and
\* on the engine's invocation counter, never on the bytes, so the loop is
\* followed here from a chunk index the bytes of a modelled buffer cannot reach.

\* The chunk index before i.
PrevChunk(i) == IF i[2] > 0 THEN <<i[1], i[2] - 1>> ELSE <<i[1] - 1, 65535>>

\* The chunk indices at which the loop is picked up: the first two and the
\* last three a 32-bit block counter can number.
LoopStarts == {U32(0), U32(1), <<65535, 65533>>, <<65535, 65534>>, U32_MAX}

\* The engine when the loop arrives at chunk i without having failed: it was
\* invoked once per earlier chunk, and holds the block counter of the last one.
chacha_state_at(secret_key, nonce, initial_counter, i) ==
    IF i = U32(0) THEN init(secret_key, nonce, TRUE)
    ELSE [init(secret_key, nonce, TRUE) EXCEPT
             !.internal_counter = i,
             !.state = [@ EXCEPT ![13] = wrapping_add(initial_counter, PrevChunk(i))]]

\* The loop body after process_block, pb being what it returned.
chunk_processed(pb, chacha_state) ==
    IF pb.err THEN [res |-> "err", chacha_state |-> chacha_state]
    ELSE IF pb.panic THEN [res |-> "panic", chacha_state |-> chacha_state]
    ELSE [res |-> "running", chacha_state |-> pb.self]

\* A faulty loop body: the block counter wraps around instead of being checked.
encrypt_counters_wrapping(chacha_state, initial_counter, counter) ==
    chunk_processed(process_block(chacha_state, Some(wrapping_add(initial_counter, counter))),
                    chacha_state)

\* One iteration of encrypt's loop for the chunk numbered counter: the block
\* counter is initial_counter.checked_add(counter as u32), and process_block
\* counts its own invocations.
encrypt_counters(chacha_state, initial_counter, counter) ==
    IF checked_add(initial_counter, counter) = None
    THEN [res |-> "err", chacha_state |-> chacha_state]
    ELSE chunk_processed(process_block(chacha_state, checked_add(initial_counter, counter)),
                         chacha_state)

\* encrypt(KeyOf(k), NonceOf(n), initial_counter, plaintext, dst_out) on
\* buffers of first + chunks chunks, arrived at the chunk numbered first.
EncryptFrom(k, n, initial_counter, first, chunks) ==
    /\ cc = NoCall
    /\ first = U32(0) \/ checked_add(initial_counter, PrevChunk(first)) # None
    /\ cc' = [op |-> "chunks", key |-> k, nonce |-> n, initial_counter |-> initial_counter,
              first |-> first, chunks |-> chunks, counter |-> first, left |-> chunks,
              chacha_state |-> chacha_state_at(KeyOf(k), NonceOf(n), initial_counter, first),
              res |-> "running"]
    /\ UNCHANGED <<snd, rcv, wire, sent, dropped, last, failed, ae>>

\* The call after one more iteration, r being what the loop body returned.
ChunkDone(call, r) ==
    [call EXCEPT !.res = r.res,
                 !.chacha_state = r.chacha_state,
                 !.counter = IF r.res = "running" THEN wrapping_add(@, U32(1)) ELSE @,
                 !.left = IF r.res = "running" THEN @ - 1 ELSE @]

\* The next iteration of the loop, or its end and the return of Ok.
EncryptChunk ==
    /\ cc.op = "chunks" /\ cc.res = "running"
    /\ cc' = IF cc.left = 0 THEN [cc EXCEPT !.res = "ok"]
             ELSE ChunkDone(cc, encrypt_counters(cc.chacha_state, cc.initial_counter,
                                                 cc.counter))
    /\ UNCHANGED <<snd, rcv, wire, sent, dropped, last, failed, ae>>

InitChaCha == NoStream /\ cc = NoCall /\ ae = NoCall

NextChaCha ==
    \/ \E k, n \in 0..(NumKeys - 1), counter \in Counters, len \in PlainLens, d \in DstSlack :
          Encrypt(k, n, counter, len, len + d)
    \/ Decrypt
    \/ \E how \in {"empty", "short", "long"} : DecryptOn(how)
    \/ \E k, n \in 0..(NumKeys - 1), counter \in Counters : KeystreamBlock(k, n, counter)
    \/ \E k \in 0..(NumKeys - 1), counter \in Counters, first \in LoopStarts,
           chunks \in 1..MaxChunks :
          EncryptFrom(k, k, counter, first, chunks)
    \/ EncryptChunk

SpecChaCha == InitChaCha /\ [][NextChaCha]_vars

(***************************************************************************)
(* One instance of the block engine: init, process_block, serialize_block  *)
(***************************************************************************)

\* The engine instance `self` after `calls` calls of process_block have
\* returned a block, the last for the block counter calls - 1.
engine_after(self, calls) ==
    IF calls = U32(0) THEN self
    ELSE [self EXCEPT !.internal_counter = calls,
                      !.state = IF self.is_ietf THEN [@ EXCEPT ![13] = PrevChunk(calls)]
                                ELSE @]

\* InternalState::init(KeyOf(k), nonce, is_ietf), and the instance followed
\* until it has returned `calls` blocks.  The nonce holds the first nlen bytes
\* of the 12-byte nonce number n followed by 31 41 59 27 00.
EngineInit(k, n, nlen, is_ietf, calls) ==
    /\ cc = NoCall
    /\ cc' = [op |-> "init", key |-> k, is_ietf |-> is_ietf, made |-> 0,
              nonce |-> Slice(NonceOf(n) \o <<49, 65, 89, 39, 0>>, 0, nlen),
              err |-> init(KeyOf(k), Slice(NonceOf(n) \o <<49, 65, 89, 39, 0>>, 0, nlen),
                           is_ietf).err,
              panic |-> FALSE,
              after |-> calls,
              self |-> IF init(KeyOf(k), Slice(NonceOf(n) \o <<49, 65, 89, 39, 0>>, 0, nlen),
                               is_ietf).err
                       THEN NoCall
                       ELSE engine_after(
                                init(KeyOf(k), Slice(NonceOf(n) \o <<49, 65, 89, 39, 0>>, 0, nlen),
                                     is_ietf), calls)]
    /\ UNCHANGED <<snd, rcv, wire, sent, dropped, last, failed, ae>>

\* process_block(block_count) on the instance; a call that panicked ends its
\* use.
ProcessBlock(block_count) ==
    /\ cc.op \in {"init", "process_block"} /\ cc.self # NoCall /\ ~cc.panic
    /\ cc.made < MaxChunks
    /\ cc' = [op |-> "process_block", key |-> cc.key, is_ietf |-> cc.is_ietf,
              made |-> cc.made + 1, nonce |-> cc.nonce, block_count |-> block_count,
              err |-> process_block(cc.self, block_count).err,
              panic |-> process_block(cc.self, block_count).panic,
              pre |-> cc.self,
              self |-> process_block(cc.self, block_count).self,
              block |-> IF process_block(cc.self, block_count).err
                           \/ process_block(cc.self, block_count).panic
                        THEN <<>>
                        ELSE process_block(cc.self, block_count).block]
    /\ UNCHANGED <<snd, rcv, wire, sent, dropped, last, failed, ae>>

\* serialize_block(&block, dst_block) of the block just returned, into a
\* destination of dlen bytes.
SerializeBlock(dlen) ==
    /\ cc.op = "process_block" /\ ~cc.err /\ ~cc.panic
    /\ cc' = [op |-> "serialize_block", key |-> cc.key, is_ietf |-> cc.is_ietf,
              made |-> cc.made, nonce |-> cc.nonce, panic |-> FALSE,
              pre |-> cc.self, self |-> cc.self, src_block |-> cc.block,
              dst_in |-> Fill(dlen),
              err |-> serialize_block(cc.self, cc.block, Fill(dlen)).err,
              dst_out |-> serialize_block(cc.self, cc.block, Fill(dlen)).dst_block]
    /\ UNCHANGED <<snd, rcv, wire, sent, dropped, last, failed, ae>>

\* The nonce lengths are those of test_nonce_length, the instances fresh or
\* one and no block away from the last block, the block counters absent, 1
\* and 2^32 - 1, the destinations of 32, 63 and 64 bytes.
NextEngine ==
    \/ \E k, n \in 0..(NumKeys - 1), nlen \in {0, IETF_CHACHA_NONCESIZE, HCHACHA_NONCESIZE, 17},
           is_ietf \in BOOLEAN, calls \in {U32(0), <<65535, 65534>>, U32_MAX} :
          EngineInit(k, n, nlen, is_ietf, calls)
    \/ \E block_count \in {None, Some(U32(1)), Some(U32_MAX)} : ProcessBlock(block_count)
    \/ \E dlen \in {HCHACHA_OUTSIZE, CHACHA_BLOCKSIZE - 1, CHACHA_BLOCKSIZE} :
          SerializeBlock(dlen)

SpecEngine == InitChaCha /\ [][NextEngine]_vars

(***************************************************************************)
(* aead::seal and aead::open called on chosen inputs                       *)
(***************************************************************************)

\* The record of a seal call, r being what seal returned.
SealCall(k, plaintext, rng, r) ==
    [op |-> "seal", key |-> k, plaintext |-> plaintext, rng_ok |-> rng.ok,
     nonce |-> rng.bytes, res |-> r.res, out |-> r.out]

\* seal(KeyOf(k), plaintext), the generator returning the nonce HeaderOf(n).
Seal(k, len, n) ==
    /\ ae = NoCall
    /\ ae' = SealCall(k, MsgOf(len), Rng(HeaderOf(n)),
                      seal(KeyOf(k), MsgOf(len), Rng(HeaderOf(n))))
    /\ UNCHANGED <<snd, rcv, wire, sent, dropped, last, failed, cc>>

\* seal(KeyOf(k), plaintext) while the random source fails.
SealRngFails(k, len) ==
    /\ ae = NoCall
    /\ ae' = SealCall(k, MsgOf(len), RngFailure, seal(KeyOf(k), MsgOf(len), RngFailure))
    /\ UNCHANGED <<snd, rcv, wire, sent, dropped, last, failed, cc>>

\* secure_rand_bytes(dst) on a dst of len bytes, rng being what the random
\* source does.
SecureRandBytes(len, rng) ==
    /\ ae = NoCall
    /\ ae' = [op |-> "secure_rand_bytes", rng_ok |-> rng.ok, dst_in |-> Fill(len),
              res |-> secure_rand_bytes(Fill(len), rng).res,
              out |-> secure_rand_bytes(Fill(len), rng).dst]
    /\ UNCHANGED <<snd, rcv, wire, sent, dropped, last, failed, cc>>

\* The record of an open call on the payload input under key k.
OpenCall(how, k, input, r) ==
    [op |-> "open", how |-> how, sealed |-> ae, key |-> k, input |-> input,
     res |-> r.res, out |-> r.out]

\* open with the key of the seal call, on the payload it returned.
Open ==
    /\ ae.op = "seal" /\ ae.res = "ok"
    /\ ae' = OpenCall("intact", ae.key, ae.out, open(KeyOf(ae.key), ae.out))
    /\ UNCHANGED <<snd, rcv, wire, sent, dropped, last, failed, cc>>

\* open with the key of the seal call, on the payload with one bit flipped.
OpenFlipped(pos, bit) ==
    /\ ae.op = "seal" /\ ae.res = "ok"
    /\ ae' = OpenCall("bit", ae.key, FlipBit(ae.out, pos, bit),
                      open(KeyOf(ae.key), FlipBit(ae.out, pos, bit)))
    /\ UNCHANGED <<snd, rcv, wire, sent, dropped, last, failed, cc>>

\* open with another key, on the payload the seal call returned.
OpenOtherKey(k) ==
    /\ ae.op = "seal" /\ ae.res = "ok" /\ k # ae.key
    /\ ae' = OpenCall("key", k, ae.out, open(KeyOf(k), ae.out))
    /\ UNCHANGED <<snd, rcv, wire, sent, dropped, last, failed, cc>>

\* open with the key of the seal call, on the first n bytes of the payload:
\* nothing, the nonce alone, nonce and tag, or one byte more.
OpenShort(n) ==
    /\ ae.op = "seal" /\ ae.res = "ok"
    /\ ae' = OpenCall("short", ae.key, Slice(ae.out, 0, n),
                      open(KeyOf(ae.key), Slice(ae.out, 0, n)))
    /\ UNCHANGED <<snd, rcv, wire, sent, dropped, last, failed, cc>>

InitAead == NoStream /\ cc = NoCall /\ ae = NoCall

NextAead ==
    \/ \E k, n \in 0..(NumKeys - 1), len \in SealLens : Seal(k, len, n)
    \/ Open
    \/ \E pos \in FlipPositions(ae), bit \in FlipBits :
          OpenFlipped(pos, bit)
    \/ \E k \in 0..(NumKeys - 1) : OpenOtherKey(k)
    \/ \E n \in {0, XCHACHA_NONCESIZE, XCHACHA_NONCESIZE + POLY1305_BLOCKSIZE,
                  XCHACHA_NONCESIZE + POLY1305_BLOCKSIZE + 1} : OpenShort(n)
    \/ \E k \in 0..(NumKeys - 1), len \in SealLens : SealRngFails(k, len)
    \/ \E len \in {0, XCHACHA_NONCESIZE}, ok \in BOOLEAN :
          SecureRandBytes(len, IF ok THEN Rng(HeaderOf(1)) ELSE RngFailure)

SpecAead == InitAead /\ [][NextAead]_vars

(***************************************************************************)
(* Properties                                                              *)
(***************************************************************************)

\* The calls the stream's state holds: the last one that succeeded and the
\* one that just failed.
StreamCalls == {last, failed}

\* The MAC pull computes for the payload cipher in the session self.
PullMac(self, cipher, ad) ==
    message_mac(
        encrypt_in_place(get_key(self), get_nonce(self), U32(0),
                         Zeros(CHACHA_BLOCKSIZE)).dst_out,
        ad,
        CopyInto(encrypt_in_place(get_key(self), get_nonce(self), U32(1),
                                  <<cipher[1]>> \o Zeros(CHACHA_BLOCKSIZE - 1)).dst_out,
                 0, <<cipher[1]>>),
        Slice(cipher, 1, Len(cipher) - POLY1305_OUTSIZE))

\* The MAC the payload cipher carries.
CarriedMac(cipher) == Slice(cipher, Len(cipher) - POLY1305_OUTSIZE, Len(cipher))

\* C1: two sessions initialised with the same key and nonce stay in step.
\* Every pull of a payload as pushed (non-empty plaintext, any of the four
\* tags, with or without associated data) succeeds and reports the pushed
\* plaintext and tag; after every pull the puller holds the subkey, counter
\* and nonce remainder the pusher holds, and while a payload is in flight the
\* puller holds what the pusher held before pushing it.
C1_PushPullInStep ==
    /\ ~(failed.op = "pull" /\ failed.how = "intact")
    /\ (last.op = "pull" /\ last.how = "intact"
            => /\ last.plaintext_out = last.pushed.plaintext
               /\ last.tag_out = last.pushed.tag
               /\ last.post = last.peer)
    /\ (dropped = {} /\ wire = <<>> => rcv = snd)
    /\ (dropped = {} /\ wire # <<>> /\ failed = NoCall /\ last.op = "push"
            => rcv = last.pre /\ snd = last.post)

\* A second message, tagged PUSH and carrying associated data, was pulled
\* after a first one.
C1_Witness ==
    /\ last.op = "pull" /\ last.how = "intact" /\ ~last.err
    /\ sent = 2 /\ wire = <<>>
    /\ last.pushed.tag = TAG_PUSH /\ last.pushed.ad # None
    /\ last.plaintext_out = MsgOf(20)
    /\ rcv = snd

\* C2: in pull the MAC is verified before anything is decrypted.  Whenever
\* the MAC computed over the input differs from the 16 bytes the input
\* carries, pull returns the error, and plaintext_out, tag_out and the session
\* are what they were before the call.
C2_MacBeforeDecrypt ==
    \A call \in StreamCalls :
        (call.op = "pull" /\ PullMac(call.pre, call.cipher, call.ad) # CarriedMac(call.cipher))
            => /\ call.err
               /\ call.plaintext_out = call.plaintext_in
               /\ call.tag_out = call.tag_in
               /\ call.post = call.pre

\* A pull of a payload with a ciphertext bit flipped failed at the MAC's
\* comparison, on a message of 20 bytes.
C2_Witness ==
    /\ failed.op = "pull" /\ failed.how = "ct" /\ failed.at = "mac"
    /\ Len(failed.plaintext_in) = 20
    /\ PullMac(failed.pre, failed.cipher, failed.ad) # CarriedMac(failed.cipher)

\* C3: aead::open returns Err(UnknownCryptoError) for a sealed payload with
\* one bit flipped (nonce, ciphertext or tag) and for a sealed payload opened
\* under another key: it neither panics nor returns a plaintext.
C3_OpenReturnsError ==
    (ae.op = "open" /\ ae.how \in {"bit", "key"}) => ae.res = "err"

\* C4: a successful push or pull whose tag has the REKEY bit (REKEY, FINISH)
\* ends rekeyed, with the counter 1 and another subkey; with the tags MESSAGE
\* and PUSH the subkey stays and the counter is one more.
C4_RekeyBitRekeys ==
    (last.op \in {"push", "pull"} /\ ~last.err)
        => IF (IF last.op = "push" THEN last.tag ELSE last.tag_out) \in {TAG_REKEY, TAG_FINISH}
           THEN last.post.counter = U32(1) /\ last.post.key # last.pre.key
           ELSE /\ last.post.counter = wrapping_add(last.pre.counter, U32(1))
                /\ last.post.key = last.pre.key

\* C5: push of an empty plaintext into a dst_out of 17 bytes succeeds, and the
\* payload is 17 bytes.
C5_EmptyMessagePushed ==
    \A call \in StreamCalls :
        (call.op = "push" /\ Len(call.plaintext) = 0
            /\ Len(call.dst_in) >= SECRETSTREAM_XCHACHA20POLY1305_ABYTES)
            => ~call.err /\ Len(call.dst_out) = SECRETSTREAM_XCHACHA20POLY1305_ABYTES

\* C6: when encrypt fails on the overflow of the block counter, dst_out is
\* byte for byte what it was before the call.
C6_OverflowLeavesDstOut ==
    (cc.op = "encrypt" /\ cc.err
        /\ Len(cc.plaintext) > 0 /\ Len(cc.dst_in) >= Len(cc.plaintext))
        => cc.dst_out = cc.dst_in

\* C7: a successful encrypt leaves every byte of dst_out from index
\* len(plaintext) on as it was.
C7_WritesPlaintextLengthOnly ==
    (cc.op = "encrypt" /\ ~cc.err /\ ~cc.panic)
        => \A j \in (Len(cc.plaintext) + 1)..Len(cc.dst_out) : cc.dst_out[j] = cc.dst_in[j]

\* C8: a dropped session holds zero in its subkey, its counter and its nonce
\* remainder.
C8_DropZeroesSession ==
    /\ "snd" \in dropped
           => snd = [key |-> Zeros(CHACHA_KEYSIZE), counter |-> U32(0),
                     r_nonce |-> Zeros(SECRETSTREAM_XCHACHA20POLY1305_INONCEBYTES)]
    /\ "rcv" \in dropped
           => rcv = [key |-> Zeros(CHACHA_KEYSIZE), counter |-> U32(0),
                     r_nonce |-> Zeros(SECRETSTREAM_XCHACHA20POLY1305_INONCEBYTES)]

LastChunk(call) == checked_add(call.first, U32(call.chunks - 1))

\* initial_counter + (number of chunks - 1) exceeds 2^32 - 1.
CounterOverflows(call) ==
    \/ LastChunk(call) = None
    \/ checked_add(call.initial_counter, LastChunk(call)[1]) = None

\* C11 as stated: for a non-empty plaintext and a dst_out that is long enough,
\* encrypt returns Err exactly when initial_counter + (chunks - 1) exceeds
\* 2^32 - 1 and Ok otherwise, and never panics.
C11_ErrExactlyOnOverflow ==
    /\ (cc.op = "chunks" /\ cc.res # "running")
           => cc.res = IF CounterOverflows(cc) THEN "err" ELSE "ok"
    /\ (cc.op = "encrypt" /\ Len(cc.plaintext) > 0 /\ Len(cc.dst_in) >= Len(cc.plaintext))
           => ~cc.panic

\* C11 amended: encrypt panics exactly when initial_counter is 0 and the
\* buffers have 2^32 chunks or more (the engine is invoked more than 2^32 - 1
\* times); it returns Err exactly when initial_counter is not 0 and
\* initial_counter + (chunks - 1) exceeds 2^32 - 1; it returns Ok otherwise.
C11_ErrOnOverflowPanicPastLastBlock ==
    /\ (cc.op = "chunks" /\ cc.res # "running")
           => cc.res = IF cc.initial_counter = U32(0)
                          /\ (LastChunk(cc) = None \/ LastChunk(cc) = Some(U32_MAX))
                       THEN "panic"
                       ELSE IF CounterOverflows(cc) THEN "err" ELSE "ok"
    /\ (cc.op = "encrypt" /\ Len(cc.plaintext) > 0 /\ Len(cc.dst_in) >= Len(cc.plaintext))
           => /\ ~cc.panic
              /\ cc.err <=> checked_add(cc.counter, U32(NumChunks(Len(cc.plaintext)) - 1)) = None

\* A call with initial_counter 2^32 - 1 on two chunks, followed from its
\* first chunk, returned Err at the second.
C11_Witness ==
    /\ cc.op = "chunks" /\ cc.res = "err"
    /\ cc.initial_counter = U32_MAX /\ cc.first = U32(0) /\ cc.chunks = 2
    /\ cc.counter = U32(1)

\* The tag byte pull recovers from the first byte of cipher.
PullTagByte(self, cipher) ==
    encrypt_in_place(get_key(self), get_nonce(self), U32(1),
                     <<cipher[1]>> \o Zeros(CHACHA_BLOCKSIZE - 1)).dst_out[1]

\* C12: when the tag byte pull recovers is none of MESSAGE, PUSH, REKEY and
\* FINISH, pull returns the error and plaintext_out, tag_out and the session
\* are what they were; an input that passes the length checks is rejected at
\* the tag's decoding, before its MAC is looked at.
C12_UndefinedTagRejected ==
    \A call \in StreamCalls :
        (call.op = "pull" /\ PullTagByte(call.pre, call.cipher) \notin Tags)
            => /\ call.err
               /\ call.plaintext_out = call.plaintext_in
               /\ call.tag_out = call.tag_in
               /\ call.post = call.pre
               /\ (Len(call.cipher) >= SECRETSTREAM_XCHACHA20POLY1305_ABYTES
                   /\ Len(call.plaintext_in)
                          >= Len(call.cipher) - SECRETSTREAM_XCHACHA20POLY1305_ABYTES)
                      => call.at = "tag"

\* A pull of a payload whose first byte decodes to a tag with bit 2 set failed.
C12_Witness ==
    /\ failed.op = "pull" /\ failed.how = "tag_undefined" /\ failed.at = "tag"
    /\ PullTagByte(failed.pre, failed.cipher) = failed.pushed.tag + 4

\* C15: however pull fails (input shorter than 17 bytes, plaintext_out too
\* short, undefined tag byte, MAC mismatch), it returns the one error value and
\* the session, plaintext_out and tag_out are what they were before the call.
C15_PullFailuresAlike ==
    \A call \in StreamCalls :
        (call.op = "pull" /\ call.err)
            => /\ call.post = call.pre
               /\ call.plaintext_out = call.plaintext_in
               /\ call.tag_out = call.tag_in

\* A pull on 16 bytes failed at the length check, after a message was pulled.
C15_Witness ==
    /\ failed.op = "pull" /\ failed.how = "short" /\ failed.at = "cipher"
    /\ Len(failed.cipher) = SECRETSTREAM_XCHACHA20POLY1305_ABYTES - 1
    /\ sent = 2

\* C16: push into a dst_out shorter than len(plaintext) + 17 returns the error,
\* writes no byte of dst_out and leaves the session as it was.
C16_ShortDstOutRejected ==
    \A call \in StreamCalls :
        (call.op = "push"
            /\ Len(call.dst_in) < Len(call.plaintext) + SECRETSTREAM_XCHACHA20POLY1305_ABYTES)
            => /\ call.err
               /\ call.dst_out = call.dst_in
               /\ call.post = call.pre

\* A push of 20 bytes into a dst_out of 36 bytes failed.
C16_Witness ==
    /\ failed.op = "push" /\ Len(failed.plaintext) = 20 /\ Len(failed.dst_in) = 36
    /\ failed.err /\ snd = failed.pre

\* C13: init(key, nonce) leaves a session, whatever state push, pull and rekey
\* calls brought it to, in the state new(key, nonce) produces: the subkey
\* HChaCha20(key, nonce[0..16]), the nonce remainder nonce[16..24] and the
\* counter 1.
C13_InitReplacesState ==
    last.op = "init"
        => /\ last.post = new(KeyOf(last.k), HeaderOf(last.k))
           /\ last.post.key = hchacha20(KeyOf(last.k), Slice(HeaderOf(last.k), 0, 16)).block
           /\ last.post.r_nonce = Slice(HeaderOf(last.k), 16, 24)
           /\ last.post.counter = U32(1)
           /\ Session(last.who) = last.post

\* init with key 1 on a session that pulled a message and holds another key
\* and the counter 2.
C13_Witness ==
    /\ last.op = "init" /\ last.who = "rcv" /\ last.k = 1
    /\ last.pre.counter = U32(2)
    /\ last.pre.key # last.post.key
    /\ rcv = new(KeyOf(1), HeaderOf(1))

\* The 40 bytes (subkey, nonce remainder) of session self XORed with the
\* first 40 bytes of the keystream block 0 under its subkey and its nonce.
RekeyedBytes(self) ==
    <<>> \o [j \in 1..(CHACHA_KEYSIZE + SECRETSTREAM_XCHACHA20POLY1305_INONCEBYTES) |->
        Xor8((self.key \o self.r_nonce)[j],
             keystream_block(self.key, to_le_bytes(self.counter) \o self.r_nonce,
                             U32(0)).block[j])]

\* C14: rekey() does not fail; it replaces the subkey and the nonce remainder
\* by the ChaCha20 encryption of (subkey, nonce remainder) under the subkey and
\* the nonce (counter, nonce remainder) from block counter 0, and sets the
\* counter to 1.
C14_RekeyDerivesFromState ==
    last.op = "rekey"
        => /\ ~last.err
           /\ last.post.key \o last.post.r_nonce = RekeyedBytes(last.pre)
           /\ last.post.counter = U32(1)
           /\ Session(last.who) = last.post

\* rekey() on a session that pushed a message: the counter was 2.
C14_Witness ==
    /\ last.op = "rekey" /\ last.who = "snd" /\ ~last.err
    /\ last.pre.counter = U32(2) /\ last.post.counter = U32(1)
    /\ last.post.key # last.pre.key /\ last.post.r_nonce # last.pre.r_nonce

\* C17: seal returns Err for an empty plaintext, whether or not a nonce could
\* be generated; open returns Err for every input shorter than 41 bytes, and
\* for no input of 41 bytes or more.
C17_LengthChecksFirst ==
    /\ (ae.op = "seal" /\ Len(ae.plaintext) = 0) => ae.res = "err"
    /\ (ae.op = "open" /\ Len(ae.input) < 41) => ae.res = "err"
    /\ (ae.op = "open" /\ Len(ae.input) >= 41) => ae.res # "err"

\* open on the first 40 bytes of a sealed payload returned Err.
C17_Witness ==
    /\ ae.op = "open" /\ ae.how = "short" /\ Len(ae.input) = 40 /\ ae.res = "err"
    /\ Len(ae.sealed.out) = 110

\* C20: a failure of the random source comes back as Err(UnknownCryptoError),
\* from secure_rand_bytes and from seal, and neither call panics.
C20_RngFailureIsError ==
    (ae.op \in {"secure_rand_bytes", "seal"} /\ ~ae.rng_ok) => ae.res = "err"

\* C20 as the code has it: secure_rand_bytes returns Err for an empty
\* destination only; on a destination that is not empty it returns Ok when the
\* random source yields, and panics when the source fails. seal under a
\* failing source returns Err for an empty plaintext and panics otherwise.
C20_RngFailurePanics ==
    /\ ae.op = "secure_rand_bytes"
           => ae.res = (IF Len(ae.dst_in) = 0 THEN "err"
                        ELSE IF ae.rng_ok THEN "ok" ELSE "panic")
    /\ (ae.op = "seal" /\ ~ae.rng_ok)
           => ae.res = (IF Len(ae.plaintext) = 0 THEN "err" ELSE "panic")

\* seal of 70 bytes panicked as the random source failed.
C20_Witness ==
    /\ ae.op = "seal" /\ ~ae.rng_ok /\ Len(ae.plaintext) = 70 /\ ae.res = "panic"

\* The input of an encrypt or decrypt call.
CallInput(call) == IF call.op = "encrypt" THEN call.plaintext ELSE call.ciphertext

\* C18: encrypt and decrypt return the error and leave dst_out as it was when
\* the input is empty or dst_out is shorter than the input; a non-empty input
\* with a dst_out at least as long is accepted: the call fails only if the
\* block counter of its last chunk would pass 2^32 - 1.
C18_BuffersChecked ==
    cc.op \in {"encrypt", "decrypt_on"} =>
        IF Len(CallInput(cc)) = 0 \/ Len(cc.dst_in) < Len(CallInput(cc))
        THEN cc.err /\ ~cc.panic /\ cc.dst_out = cc.dst_in
        ELSE /\ ~cc.panic
             /\ cc.err <=> checked_add(cc.counter,
                                       U32(NumChunks(Len(CallInput(cc))) - 1)) = None

\* decrypt of a ciphertext of a chunk and a byte was refused a dst_out one
\* byte short.
C18_Witness ==
    /\ cc.op = "decrypt_on" /\ cc.how = "short" /\ cc.err
    /\ Len(cc.ciphertext) = 65 /\ Len(cc.dst_in) = 64 /\ cc.dst_out = cc.dst_in

\* Of key, nonce and counter, those in which two keystream_block calls differ.
Differing(a, b) ==
    {f \in {"key", "nonce", "counter"} :
        \/ f = "key" /\ a.key # b.key
        \/ f = "nonce" /\ a.nonce # b.nonce
        \/ f = "counter" /\ a.counter # b.counter}

\* C19: two keystream_block calls succeed; on the same key, nonce and counter
\* they return the same block, and when exactly one of key, nonce and counter
\* differs they return different blocks.
C19_KeystreamBlockSeparates ==
    (cc.op = "keystream_block" /\ cc.prev # NoCall) =>
        /\ ~cc.err /\ ~cc.prev.err
        /\ Len(cc.block) = CHACHA_BLOCKSIZE
        /\ Differing(cc, cc.prev) = {} => cc.block = cc.prev.block
        /\ Cardinality(Differing(cc, cc.prev)) = 1 => cc.block # cc.prev.block

\* Two calls differing in the counter alone, 2^32 - 2 and 2^32 - 1, were made.
C19_Witness ==
    /\ cc.op = "keystream_block" /\ cc.prev # NoCall
    /\ Differing(cc, cc.prev) = {"counter"}
    /\ cc.prev.counter = <<65535, 65534>> /\ cc.counter = U32_MAX
    /\ cc.block # cc.prev.block

\* The u32 after a.
Succ32(a) == IF a[2] < 65535 THEN <<a[1], a[2] + 1>> ELSE <<a[1] + 1, 0>>

\* C21: a fresh instance's invocation counter is 0; a process_block call that
\* passes the mode check raises it by exactly one, unless it stands at
\* 2^32 - 1: then the call panics, returns no block and the counter has not
\* wrapped.
C21_InvocationCounterNeverWraps ==
    /\ (cc.op = "init" /\ ~cc.err /\ cc.after = U32(0))
           => cc.self.internal_counter = U32(0)
    /\ (cc.op = "process_block" /\ ~cc.err)
           => IF cc.pre.internal_counter = U32_MAX
              THEN cc.panic /\ cc.block = <<>> /\ cc.self.internal_counter = U32_MAX
              ELSE /\ ~cc.panic /\ Len(cc.block) = 16
                   /\ cc.self.internal_counter = Succ32(cc.pre.internal_counter)

\* The 2^32-th call of process_block on an instance panicked, after the call
\* before it had returned a block.
C21_Witness ==
    /\ cc.op = "process_block" /\ cc.panic /\ cc.made = 2
    /\ cc.pre.internal_counter = U32_MAX /\ cc.is_ietf

\* C28: the block an IETF instance returns for the block counter c is the block
\* a fresh keystream_block(key, nonce, c) serialises, whatever calls the
\* instance served before; the call stores c in state word 12 and changes no
\* other word: the constants, the key words and the nonce words stay those of
\* init.
C28_BlockDependsOnInputsOnly ==
    (cc.op = "process_block" /\ cc.is_ietf /\ ~cc.err /\ ~cc.panic) =>
        /\ store_u32_into_le(cc.block)
               = keystream_block(KeyOf(cc.key), cc.nonce, cc.block_count[1]).block
        /\ cc.self.state = [cc.pre.state EXCEPT ![13] = cc.block_count[1]]
        /\ cc.self.is_ietf = cc.pre.is_ietf
        /\ \A i \in (1..12) \cup (14..16) :
               cc.self.state[i] = init(KeyOf(cc.key), cc.nonce, TRUE).state[i]

\* An instance that had served the block counter 2^32 - 1 returned the block
\* of counter 1 on its second call.
C28_Witness ==
    /\ cc.op = "process_block" /\ cc.is_ietf /\ ~cc.err /\ ~cc.panic
    /\ cc.made = 2 /\ cc.pre.state[13] = U32_MAX /\ cc.block_count = Some(U32(1))
    /\ cc.key = 1 /\ cc.pre.internal_counter = U32(1)

\* C29: the block of an IETF instance is the state after the ten double
\* rounds plus the state they started from, word by word modulo 2^32; the
\* block of an HChaCha20 instance is the state after the rounds alone, and
\* its serialisation is the 32 bytes of words 0..3 and 12..15 in little
\* endian, which is what hchacha20(key, nonce) returns.
C29_FeedForwardInIetfOnly ==
    /\ (cc.op = "process_block" /\ ~cc.err /\ ~cc.panic) =>
           \A i \in 1..16 :
               cc.block[i] = IF cc.is_ietf
                             THEN wrapping_add(Rounds(cc.self.state, 10)[i], cc.self.state[i])
                             ELSE Rounds(cc.self.state, 10)[i]
    /\ (cc.op = "serialize_block" /\ ~cc.is_ietf /\ ~cc.err) =>
           /\ Len(cc.dst_out) = 32
           /\ \A j \in 0..3 :
                  /\ SubSeq(cc.dst_out, 4 * j + 1, 4 * j + 4) = to_le_bytes(cc.src_block[j + 1])
                  /\ SubSeq(cc.dst_out, 4 * j + 17, 4 * j + 20) = to_le_bytes(cc.src_block[j + 13])
           /\ cc.dst_out = hchacha20(KeyOf(cc.key), cc.nonce).block

\* The key 00 01 .. 1f and the nonce 00 00 00 09 00 00 00 4a 00 00 00 00 31 41
\* 59 27 gave the subkey 82 41 3b 42 27 b2 7b fe d3 0e 42 50 8a 87 7d 73 a0 f9
\* e4 d5 8a 74 a8 53 c1 2e c4 13 26 d3 ec dc.
C29_Witness ==
    /\ cc.op = "serialize_block" /\ ~cc.is_ietf /\ ~cc.err
    /\ cc.key = 1 /\ cc.nonce = NonceOf(1) \o <<49, 65, 89, 39>>
    /\ cc.dst_out = <<130, 65, 59, 66, 39, 178, 123, 254, 211, 14, 66, 80, 138, 135, 125, 115,
                      160, 249, 228, 213, 138, 116, 168, 83, 193, 46, 196, 19, 38, 211, 236, 220>>

\* C30: init fails exactly when the nonce is not of the mode's length;
\* process_block fails exactly when the mode and the presence of a block
\* counter do not match, and leaves the instance as it was; serialize_block
\* fails exactly when the destination is not of the mode's length, and leaves
\* the destination as it was.
C30_ModeMismatchRejected ==
    /\ cc.op = "init" =>
           /\ cc.err <=> Len(cc.nonce) # (IF cc.is_ietf THEN 12 ELSE 16)
           /\ cc.err => cc.self = NoCall
    /\ cc.op = "process_block" =>
           /\ cc.err <=> (cc.is_ietf <=> cc.block_count = None)
           /\ cc.err => ~cc.panic /\ cc.self = cc.pre /\ cc.block = <<>>
    /\ cc.op = "serialize_block" =>
           /\ cc.err <=> Len(cc.dst_in) # (IF cc.is_ietf THEN 64 ELSE 32)
           /\ cc.err => cc.dst_out = cc.dst_in /\ cc.self = cc.pre

\* An HChaCha20 instance refused a destination of 64 bytes after it had
\* refused a block counter.
C30_Witness ==
    /\ cc.op = "serialize_block" /\ ~cc.is_ietf /\ cc.err
    /\ Len(cc.dst_in) = 64 /\ cc.dst_out = cc.dst_in /\ cc.made = 2

\* The Poly1305 tag of a payload in the session self when pad zero bytes
\* follow the ciphertext: the key is the first 32 bytes of keystream block 0,
\* the input the associated data padded to 16 bytes, the tag block, the
\* ciphertext, the pad and the two lengths.
PaddedMac(self, cipher, ad, pad) ==
    poly1305(
        Slice(keystream_block(get_key(self), get_nonce(self), U32(0)).block, 0, 32),
        (IF ad = None THEN <<>> ELSE ad[1])
        \o Zeros((16 - ((IF ad = None THEN 0 ELSE Len(ad[1])) % 16)) % 16)
        \o <<cipher[1]>>
        \o Slice(keystream_block(get_key(self), get_nonce(self), U32(1)).block, 1, 64)
        \o Slice(cipher, 1, Len(cipher) - 16)
        \o Zeros(pad)
        \o u64_to_le_bytes(IF ad = None THEN 0 ELSE Len(ad[1]))
        \o u64_to_le_bytes(64 + Len(cipher) - 17))

\* The payload of a push or pull call.
Payload(call) == IF call.op = "push" THEN call.dst_out ELSE call.cipher

\* C22: the MAC of every payload pushed or pulled is computed with
\* (16 - (msglen mod 16)) mod 16 zero bytes after the ciphertext, which pads
\* what precedes the two lengths to a multiple of 16.
C22_PaddingToBoundary ==
    (last.op \in {"push", "pull"} /\ ~last.err) =>
        CarriedMac(Payload(last))
            = PaddedMac(last.pre, Payload(last), last.ad,
                        (16 - ((Len(Payload(last)) - 17) % 16)) % 16)

\* C22 as the code has it: the MAC of every payload pushed or pulled is
\* computed with msglen mod 16 zero bytes after the ciphertext.
C22_PaddingIsLengthMod16 ==
    (last.op \in {"push", "pull"} /\ ~last.err) =>
        CarriedMac(Payload(last))
            = PaddedMac(last.pre, Payload(last), last.ad, (Len(Payload(last)) - 17) % 16)

\* A message of 20 bytes with associated data was pulled.
C22_Witness ==
    /\ last.op = "pull" /\ ~last.err /\ last.plaintext_out = MsgOf(20) /\ last.ad # None
    /\ CarriedMac(last.cipher) = PaddedMac(last.pre, last.cipher, last.ad, 4)

\* C23: a successful push tagged MESSAGE or PUSH from a counter below
\* 2^32 - 1 keeps the subkey, XORs the first 8 bytes of the MAC it wrote into
\* the nonce remainder and raises the counter by one; the nonce of the next
\* operation is the counter in 4 little-endian bytes, then the remainder.
C23_RatchetFoldsMac ==
    (last.op = "push" /\ ~last.err /\ last.tag \in {TAG_MESSAGE, TAG_PUSH}
        /\ last.pre.counter # U32_MAX) =>
        /\ last.post.key = last.pre.key
        /\ \A j \in 1..8 :
               last.post.r_nonce[j]
                   = Xor8(last.pre.r_nonce[j], last.dst_out[1 + Len(last.plaintext) + j])
        /\ last.post.counter = Succ32(last.pre.counter)
        /\ get_nonce(last.post)
               = <<last.post.counter[2] % 256, last.post.counter[2] \div 256,
                   last.post.counter[1] % 256, last.post.counter[1] \div 256>>
                 \o last.post.r_nonce
        /\ \A u \in cc.uses : u.call = sent + 1 => u.nonce = get_nonce(last.post)

\* A push tagged PUSH took the counter from 2^32 - 2 to 2^32 - 1.
C23_Witness ==
    /\ last.op = "push" /\ ~last.err /\ last.tag = TAG_PUSH
    /\ last.pre.counter = <<65535, 65534>> /\ last.post.counter = U32_MAX
    /\ last.post.r_nonce # last.pre.r_nonce /\ snd = last.post

\* C24: the counter of a session is never 0, whatever calls succeeded or
\* failed; a push or pull that finds it at 2^32 - 1 ends rekeyed, with the
\* counter 1 and another subkey.
C24_CounterNeverZero ==
    /\ snd.counter # U32(0) /\ rcv.counter # U32(0)
    /\ \A call \in StreamCalls :
           call.op # "none" => call.pre.counter # U32(0) /\ call.post.counter # U32(0)
    /\ (last.op \in {"push", "pull"} /\ ~last.err /\ last.pre.counter = U32_MAX)
           => last.post.counter = U32(1) /\ last.post.key # last.pre.key

\* A pull of a payload tagged PUSH found the counter at 2^32 - 1 and left it
\* at 1.
C24_Witness ==
    /\ last.op = "pull" /\ ~last.err /\ last.tag_out = TAG_PUSH
    /\ last.pre.counter = U32_MAX /\ last.post.counter = U32(1) /\ rcv = last.post

\* C25: no keystream block (subkey, nonce, block counter) is asked for twice
\* by the pushes and rekeys of one session: not for two uses, and not by two
\* calls.
C25_KeystreamUsedOnce ==
    \A a, b \in cc.uses :
        (a.key = b.key /\ a.nonce = b.nonce /\ a.block = b.block) => a = b

\* C26: the puller accepts the payloads in the order of the pushes, each once:
\* a pull fails only on a payload that was not pushed from the state the puller
\* is in, and a pull that failed left the session, plaintext_out and tag_out
\* as they were, so the payload that is due is accepted afterwards.
C26_AcceptedInPushOrder ==
    /\ \A j \in 1..Len(cc.pulled) : cc.pulled[j] = j
    /\ failed.op = "pull" =>
           /\ failed.pushed.pre # failed.pre
           /\ failed.post = failed.pre /\ rcv = failed.pre
           /\ failed.plaintext_out = failed.plaintext_in
           /\ failed.tag_out = failed.tag_in
    /\ (last.op = "pull" /\ failed = NoCall) => last.pushed.pre = last.pre

\* The first payload was pulled, then refused when it came again, and the
\* second payload is still the one pushed from the puller's state.
C26_Witness ==
    /\ failed.op = "pull" /\ cc.pulled = <<1>> /\ Len(wire) = 2
    /\ failed.pushed = wire[1] /\ wire[2].pre = rcv

\* C27: a pull on a session in step with the pusher fails, and changes
\* nothing, when its input differs from the payload pushed in the tag byte,
\* in a ciphertext byte or in a MAC byte, or when its associated data differs
\* from the data of the push; a forged tag that is a defined tag fails at the
\* MAC.
C27_TamperedPayloadRejected ==
    \A call \in StreamCalls :
        (call.op = "pull" /\ call.how \in Tampers) =>
            /\ call.cipher # call.pushed.cipher \/ call.ad # call.pushed.ad
            /\ Len(call.cipher) = Len(call.pushed.cipher)
            /\ call.err /\ call.post = call.pre
            /\ call.plaintext_out = call.plaintext_in /\ call.tag_out = call.tag_in
            /\ call.how = "tag" => call.at = "mac"

\* A payload tagged PUSH whose first byte was changed on the way, to one that
\* decrypts to a defined tag, was refused at the MAC.
C27_Witness ==
    /\ failed.op = "pull" /\ failed.how = "tag" /\ failed.at = "mac"
    /\ failed.pushed.tag = TAG_PUSH
    /\ failed.cipher[1] # failed.pushed.cipher[1]
    /\ Slice(failed.cipher, 1, Len(failed.cipher)) = Slice(failed.pushed.cipher, 1, Len(failed.cipher))
====
